---------------------------- MODULE Spec2Model ----------------------------
(***************************************************************************)
(* PcaPsfDeterminer.determinePsf (python/lsst/meas/algorithms/             *)
(* pcaPsfDeterminer.py) as a state machine: one call of determinePsf on a  *)
(* determiner, from the validation of the candidate list to the return.    *)
(*                                                                         *)
(* Numbers.  Sizes (second-moment semi-major axes) are integers; the       *)
(* median of a list is carried as twice its value (Median2), so that       *)
(* int(k*sqrt(m) + 0.5) is computed exactly on integers.  Chi-squares are  *)
(* integers, with NaN a value of its own that compares false with          *)
(* everything; an uninitialised size may also be NaN, negative or Inf     *)
(* (+infinity, above every number).  Spatial residuals, their clipped mean and standard         *)
(* deviation are integers in units of 1e-4.  A quotient l/float(d) is the  *)
(* record [num |-> l, den |-> d].                                          *)
(***************************************************************************)
EXTENDS Integers, Sequences, FiniteSets, TLC

----------------------------------------------------------------------------
(* Bounds of the model *)

\* longest psfCandidateList
MaxCands == 2
\* largest configured nIterForPsf
MaxIter == 2
\* cells of the SpatialCellSet (sizeCellX, sizeCellY and the bounding box)
NumCells == 2

(* Program constants *)

\* configured kernelSize at or above which it is an absolute size
AbsoluteKernelSize == 15
\* config.reducedChi2ForPsfCandidates (default)
ReducedChi2ForPsfCandidates == 2
\* config.spatialReject (default)
SpatialReject == 3
\* the floor of the clipped standard deviation, 1.0e-4, in units of 1e-4
RmsFloor == 1
\* the chi^2 of a candidate no fit has visited yet
Chi2Init == 1000
\* NaN as a chi^2 value or as a size
NaN == 9999
\* float("inf") as a size: above every other size, below the code of NaN
Inf == 9998

(* Input domains *)

\* where a candidate's centre lies: 0 is outside the bounding box, c > 0 is cell c
Positions == 0 .. NumCells
\* second-moment sizes (axes.getA()) of the candidates' sources
SizeVals == {4}
\* what an element of the uninitialised numpy.ndarray may hold
GarbageVals == {-1, 0, 9, Inf, NaN}
\* configured <<kernelSize, kernelSizeMin, kernelSizeMax, borderWidth, nStarPerCell>>;
\* nStarPerCell is 3 by default (line 71), and 1 puts two candidates of one cell over it
KernelConfigs == {<<2, 5, 7, 0, 3>>, <<15, 5, 7, 1, 1>>}
NEigenVals == {1, 2}
\* chi^2 a fit may leave on a candidate
Chi2Vals == {2, 3}
\* the chi^2 of the spatial fit
FitChi2Vals == {1}
\* largest raw eigenvalue of a fit
RawEigenVals == {6}
\* spatial residuals, clipped means and clipped standard deviations (units of 1e-4)
ResVals == {0, 5}
MeanVals == {0}
RmsVals == {0, 2}
\* callers: <<the determiner was built with a schema, metadata is given>>
CallerModes == {<<FALSE, FALSE>>, <<TRUE, TRUE>>}
\* lsstDebug settings: <<display, displayIterations, pause>>
DebugModes == {<<FALSE, FALSE, FALSE>>, <<TRUE, TRUE, TRUE>>}
\* replies that end the prompt loop ("s" is typed without a file name)
ReplyVals == {"c", "n", "q", "y", "s"}

(* Bright star stamps: bounds and input domains *)

\* BrightStarStamp objects there are
NumStamps == 3
\* BrightStarStamps instances made in a run of the model
MaxCollections == 2
\* longest list of stamps held by an instance
MaxStamps == 3
\* calls made on the stamps in a run of the model
MaxStampCalls == 3
\* Python's None, as a radius, a flux or a magnitude limit
None == -1
\* what annulusStat.getValue() may return
FluxVals == {7}
\* innerRadius and outerRadius arguments
RadiusVals == {None, 5, 6}
\* magMin and magMax arguments
MagLimitVals == {None, 1, 3}

----------------------------------------------------------------------------
(* Source selection: bounds and input domains *)

\* longest array of values given to BaseLimit.apply
MaxValues == 3
\* the values of the array
ValueVals == {1, 2, 3, NaN}
\* BaseLimit.minimum and BaseLimit.maximum
LimitVals == {None, 1, 3}
\* longest catalog given to BaseSourceSelectorTask.run
MaxSources == 3
\* afw.table catalogs, and pandas.DataFrame or astropy.table.Table
CatalogKinds == {"afw", "table"}

----------------------------------------------------------------------------
(* Sequences *)

Range(s) == {s[i] : i \in DOMAIN s}

Reverse(s) == [i \in 1 .. Len(s) |-> s[Len(s) + 1 - i]]

Take(s, n) == SubSeq(s, 1, IF n < Len(s) THEN n ELSE Len(s))

RECURSIVE SeqsUpTo(_, _)
\* all sequences over S of length at most n
SeqsUpTo(S, n) ==
    IF n = 0 THEN {<<>>}
    ELSE LET shorter == SeqsUpTo(S, n - 1)
         IN  shorter \cup {Append(s, x) : s \in {t \in shorter : Len(t) = n - 1}, x \in S}

----------------------------------------------------------------------------
(* Floating-point comparisons with NaN *)

IsNaN(x) == x = NaN
Lt(a, b) == ~IsNaN(a) /\ ~IsNaN(b) /\ a < b
Gt(a, b) == ~IsNaN(a) /\ ~IsNaN(b) /\ a > b

----------------------------------------------------------------------------
(* list.sort(key=..., reverse=True): CPython's listsort on fewer than 64    *)
(* elements is count_run followed by a binary insertion sort, comparing     *)
(* keys with < only; reverse=True reverses the list before and after.       *)

RECURSIVE RunLength(_, _, _, _)
\* count_run: the length of the run starting at s[1]; n elements are in it so far
RunLength(s, key, descending, n) ==
    IF n >= Len(s) THEN n
    ELSE IF descending
         THEN IF Lt(key[s[n + 1]], key[s[n]]) THEN RunLength(s, key, descending, n + 1) ELSE n
         ELSE IF Lt(key[s[n + 1]], key[s[n]]) THEN n ELSE RunLength(s, key, descending, n + 1)

RECURSIVE BinaryPos(_, _, _, _, _)
\* binarysort's search: where the pivot goes among s[l .. r-1]
BinaryPos(s, key, pivot, l, r) ==
    IF l >= r THEN l
    ELSE LET p == l + ((r - l) \div 2)
         IN  IF Lt(key[pivot], key[s[p]])
             THEN BinaryPos(s, key, pivot, l, p)
             ELSE BinaryPos(s, key, pivot, p + 1, r)

RECURSIVE BinarySort(_, _, _)
\* binarysort: s[1 .. start-1] is sorted; insert s[start], s[start+1], ...
BinarySort(s, key, start) ==
    IF start > Len(s) THEN s
    ELSE LET pivot == s[start]
             pos == BinaryPos(s, key, pivot, 1, start)
             moved == [i \in 1 .. Len(s) |->
                          IF i < pos THEN s[i]
                          ELSE IF i = pos THEN pivot
                          ELSE IF i <= start THEN s[i - 1]
                          ELSE s[i]]
         IN  BinarySort(moved, key, start + 1)

ListSort(s, key) ==
    IF Len(s) < 2 THEN s
    ELSE LET descending == Lt(key[s[2]], key[s[1]])
             n == RunLength(s, key, descending, 2)
             run == IF descending
                    THEN [i \in 1 .. Len(s) |-> IF i <= n THEN s[n + 1 - i] ELSE s[i]]
                    ELSE s
         IN  BinarySort(run, key, n + 1)

ListSortReverse(s, key) == Reverse(ListSort(Reverse(s), key))

----------------------------------------------------------------------------
(* numpy.median, and the kernel size derived from it *)

\* twice numpy.median(sizes): the middle element, or the mean of the two middle ones;
\* NaN if an element is NaN, and Inf if a middle element is
Median2(sizes) ==
    LET n == Len(sizes)
        ids == [i \in 1 .. n |-> i]
        sorted == ListSort(ids, sizes)
        low == sizes[sorted[(n + 1) \div 2]]
        high == sizes[sorted[n \div 2 + 1]]
    IN  IF \E i \in 1 .. n : IsNaN(sizes[i]) THEN NaN
        ELSE IF low = Inf \/ high = Inf THEN Inf
        ELSE low + high

RECURSIVE HalfUpFrom(_, _, _)
\* the largest r' >= r with r' - 1/2 <= k*sqrt(m2/2)
HalfUpFrom(k, m2, r) ==
    IF (2 * r + 1) * (2 * r + 1) <= 2 * k * k * m2 THEN HalfUpFrom(k, m2, r + 1) ELSE r

RECURSIVE TruncFrom(_, _, _)
\* the largest r' >= r with r' <= k*sqrt(m2/2)
TruncFrom(k, m2, r) ==
    IF 2 * (r + 1) * (r + 1) <= k * k * m2 THEN TruncFrom(k, m2, r + 1) ELSE r

\* int(k * numpy.sqrt(m)): the rounding term 0.5 left out
IntTruncated(k, m2) == TruncFrom(k, m2, 0)

\* int(k * numpy.sqrt(m) + 0.5), m = m2/2, for k >= 0
IntHalfUp(k, m2) == HalfUpFrom(k, m2, 0)

\* line 227: what int(kernelSize * numpy.sqrt(median) + 0.5) raises: the square root
\* of a negative median is nan, int(nan) is a ValueError and int(inf) an
\* OverflowError; 0 * inf is nan
KernelSizeError(kernelSize, m2) ==
    IF kernelSize >= AbsoluteKernelSize THEN "none"
    ELSE IF IsNaN(m2) THEN "ValueError"
    ELSE IF m2 = Inf THEN (IF kernelSize = 0 THEN "ValueError" ELSE "OverflowError")
    ELSE IF m2 < 0 THEN "ValueError"
    ELSE "none"

\* lines 225-231: self.config.kernelSize = ...
KernelSizeKeptLocal(config, kernelSize) == config
KernelSizeStored(config, kernelSize) == [config EXCEPT !.kernelSize = kernelSize]

\* lines 223-231: the value left in config.kernelSize
DerivedKernelSizeWithoutPlusOne(kernelSize, kernelSizeMin, kernelSizeMax, m2) ==
    IF kernelSize >= AbsoluteKernelSize
    THEN kernelSize
    ELSE LET scaled == 2 * IntHalfUp(kernelSize, m2)
             raised == IF scaled < kernelSizeMin THEN kernelSizeMin ELSE scaled
         IN  IF raised > kernelSizeMax THEN kernelSizeMax ELSE raised
DerivedKernelSize(kernelSize, kernelSizeMin, kernelSizeMax, m2) ==
    IF kernelSize >= AbsoluteKernelSize
    THEN kernelSize
    ELSE LET scaled == 2 * IntHalfUp(kernelSize, m2) + 1
             raised == IF scaled < kernelSizeMin THEN kernelSizeMin ELSE scaled
         IN  IF raised > kernelSizeMax THEN kernelSizeMax ELSE raised

----------------------------------------------------------------------------
(* The spatial cell set *)

\* psfCellSet.insertCandidate for candidates i, i+1, ... of the list: a candidate
\* outside the bounding box raises and is skipped (lines 211-216)
RECURSIVE InsertFrom(_, _, _)
InsertFrom(cells, list, i) ==
    IF i > Len(list) THEN cells
    ELSE IF list[i].pos = 0
         THEN InsertFrom(cells, list, i + 1)
         ELSE InsertFrom([cells EXCEPT ![list[i].pos] = Append(@, i)], list, i + 1)

EmptyCellSet == [c \in 1 .. NumCells |-> <<>>]

\* cell.begin(ignoreBad): the cell's candidates, the BAD ones left out on request
CellIter(cell, ignoreBad, st) ==
    IF ignoreBad THEN SelectSeq(cell, LAMBDA i : st[i] # "BAD") ELSE cell

RECURSIVE VisitFrom(_, _, _, _)
\* for cell in psfCellSet.getCellList(): for cand in cell.begin(ignoreBad)
VisitFrom(cells, ignoreBad, st, c) ==
    IF c > NumCells THEN <<>>
    ELSE CellIter(cells[c], ignoreBad, st) \o VisitFrom(cells, ignoreBad, st, c + 1)

Visit(cells, ignoreBad, st) == VisitFrom(cells, ignoreBad, st, 1)

\* a count that takes at most nStarPerCell candidates from each cell
CountPsfCandidatesPerCell(cells, nStarPerCell, st) ==
    LET RECURSIVE CountFrom(_)
        CountFrom(c) ==
            IF c > NumCells THEN 0
            ELSE LET inCell == Len(CellIter(cells[c], TRUE, st))
                 IN  (IF inCell < nStarPerCell THEN inCell ELSE nStarPerCell)
                     + CountFrom(c + 1)
    IN  CountFrom(1)

\* line 161: algorithmsLib.countPsfCandidates(psfCellSet, nStarPerCell).  The
\* function is compiled code; by its description the fit takes every candidate
\* of every cell whose status is not BAD, and caps on the candidates of a cell
\* belong to the grid's admission, so nStarPerCell does not limit the count.
CountPsfCandidates(cells, nStarPerCell, st) == Len(Visit(cells, TRUE, st))

----------------------------------------------------------------------------
(* _fitPsf *)

\* lines 159-160: degrees of freedom per star
Nu(kernelSize, borderWidth) ==
    LET size == kernelSize + 2 * borderWidth
    IN  size * size - 1

\* lines 161-162: eigenValues in units of reduced chi^2 per star
NormalizedEigenValues(raw, count, nu) ==
    [k \in 1 .. Len(raw) |-> [num |-> raw[k], den |-> count * nu]]

\* the raw eigenvalues createKernelFromPsfCandidates returns, largest first
RawEigenValues(largest, nEigen) == [k \in 1 .. nEigen |-> largest + 1 - k]

----------------------------------------------------------------------------
(* Clipping *)

\* lines 326 and 398 (Python 2: / on integers is floor division):
\* int(len(badCandidates) * (iter + 1) / nIterForPsf + 0.5)
NumBadEqualShare(n, iter, nIterForPsf) == n \div nIterForPsf
NumBad(n, iter, nIterForPsf) == (n * (iter + 1)) \div nIterForPsf

\* line 320
Chi2ClippedAtThresholdToo(rchi2) ==
    Lt(rchi2, 0) \/ ~Lt(rchi2, ReducedChi2ForPsfCandidates)
Chi2Clipped(rchi2) ==
    Lt(rchi2, 0) \/ Gt(rchi2, ReducedChi2ForPsfCandidates) \/ IsNaN(rchi2)

\* lines 315-325: badCandidates of the chi^2 clip, worst first
Chi2BadCandidates(cells, st, chi) ==
    ListSortReverse(SelectSeq(Visit(cells, FALSE, st), LAMBDA i : Chi2Clipped(chi[i])), chi)

\* lines 327-330 and 400-406: set BAD the status of the candidates named
MarkBadNothing(st, who) == st
MarkBadAndClearOthers(st, who) == [i \in DOMAIN st |-> IF i \in who THEN "BAD" ELSE "UNKNOWN"]
MarkBad(st, who) == [i \in DOMAIN st |-> IF i \in who THEN "BAD" ELSE st[i]]

Abs(x) == IF x < 0 THEN -x ELSE x

\* line 386
FlooredRms(rms) == IF rms > RmsFloor THEN rms ELSE RmsFloor

\* line 393
SpatialClippedAtLimitToo(residual, mean, rms) == Abs(residual - mean) >= SpatialReject * rms
SpatialClipped(residual, mean, rms) == Abs(residual - mean) > SpatialReject * rms

\* lines 391-396: badCandidates of component k, as candidates of the residual list
SpatialBadCandidates(cands, res, k, mean, rms) ==
    LET dev == [i \in Range(cands) |-> Abs(res[i][k] - mean)]
    IN  ListSortReverse(SelectSeq(cands, LAMBDA i : SpatialClipped(res[i][k], mean, rms)), dev)

----------------------------------------------------------------------------
(* State *)

VARIABLES
    cfg,               \* self.config: the fields determinePsf reads; kernelSize is overwritten
    key,               \* self.key is not None (the determiner was built with a schema)
    psfCandidateList,  \* the argument: per candidate, where its centre lies and its size
    hasMetadata,       \* the argument metadata is not None
    lsstDebug,         \* lsstDebug.Info(__name__): <<display, displayIterations, pause>>
    display, displayIterations, pause,   \* the locals read from lsstDebug at each call
    reply,             \* the last reply at the prompt ("y" before any)
    pc,                \* where determinePsf is
    iter,              \* the loop variable
    built,             \* psfCellSet has been constructed
    cells,             \* psfCellSet: per cell, its candidates (indices in the list)
    sizes,             \* the numpy array sizes
    stampSize,         \* the width and height set on the candidates (0: not set)
    status,            \* per candidate: getStatus()
    chi2,              \* per candidate: getChi2()
    psfstar,           \* per candidate: the classification.psfstar flag of its source
    psf,               \* the last result of _fitPsf: which fit, from which candidates
    eigenValues,       \* the eigenValues _fitPsf returned last
    rawEigen,          \* the eigenvalues createKernelFromPsfCandidates returned last
    fitChi2,           \* the chi2 _fitPsf returned last
    nFits,             \* calls of _fitPsf so far
    fitCount,          \* the non-BAD candidates the last call of _fitPsf found
    log,               \* the steps of the loop taken so far, in order
    rounds,            \* rounds of the loop begun
    badCandidates,     \* the list badCandidates as last sorted
    numBad,            \* numBad as last computed
    candidates,        \* the list candidates of the residual evaluation
    residuals,         \* per evaluated candidate: its residuals, one per component
    comp,              \* components the spatial clip has done in this round
    mean, rms,         \* the clipped mean and the floored rms of the last component
    failed,            \* candidates whose getUndistImage raised in this round
    failedPrev,        \* candidates whose getUndistImage raised in the round before
    requested,         \* candidates whose getUndistImage was called in this round
    markedA,           \* candidates the chi^2 clip of this round set BAD
    markedB,           \* candidates the spatial clip of this round set BAD
    numGoodStars, numAvailStars,
    metadata,          \* what metadata.set stored
    ret,               \* what determinePsf returned
    err,               \* the exception determinePsf raised
    kernelSize0,       \* config.kernelSize when determinePsf was called
    calls,             \* calls of determinePsf made on the determiner, this one included
    \* BrightStarStamp objects and BrightStarStamps collections (brightStarStamps.py)
    stampsModule,      \* "not imported", then "imported" or the exception the import
                       \* of brightStarStamps.py raised
    annularFlux,       \* per BrightStarStamp object: its annularFlux (None: not normalized)
    collections,       \* the BrightStarStamps instances made so far: _stamps (the stamp
                       \* objects held, in order), _innerRadius, _outerRadius, normalized
    stampCall,         \* the last call on the stamps: its name, what it raised, the
                       \* collection it acted on and that collection's _stamps before
                       \* it; direct: some stamp's measureAndNormalize was called by
                       \* the caller itself so far
    stampCalls,        \* calls made on the stamps so far
    \* a BaseLimit and a call of its apply (sourceSelector.py)
    minimum, maximum,  \* the fields of the config (None: not set)
    values,            \* the argument of apply
    limitSelected,     \* what apply returned
    limitPc,           \* "start" before the call, "returned" after
    \* a call of BaseSourceSelectorTask.run (sourceSelector.py)
    sourceCat,         \* the catalog given: its kind, whether it is contiguous, and per
                       \* source the flag that sourceSelectedField names
    sourceCat0,        \* the catalog as it was when run was called
    sourceSelectedField,   \* the argument is not None
    struct,            \* the Struct run returned: sourceCat (the rows of the input, by
                       \* index) and selected
    runPc,             \* "start" before the call, then "returned" or "raised"
    \* a call of ScienceSourceSelectorTask.selectSources (sourceSelector.py)
    science            \* config (self.config), cat (sourceCat: per source the columns
                       \* the criteria read), selected (the array returned) and pc
                       \* ("idle", "start" before the call, "returned" after)

stampVars == <<stampsModule, annularFlux, collections, stampCall, stampCalls>>
limitVars == <<minimum, maximum, values, limitSelected, limitPc>>
runVars == <<sourceCat, sourceCat0, sourceSelectedField, struct, runPc>>
\* the state of the other classes of the package, which determinePsf leaves alone
otherVars == <<stampVars, limitVars, runVars, science>>

\* the state of a determiner and of its call of determinePsf
psfVars == <<cfg, key, psfCandidateList, hasMetadata, lsstDebug, display,
             displayIterations, pause, reply, pc, iter, built, cells, sizes, stampSize, status, chi2, psfstar, psf,
             eigenValues, rawEigen, fitChi2, nFits, fitCount, log, rounds, badCandidates,
             numBad, candidates, residuals, comp, mean, rms, failed, failedPrev, requested,
             markedA, markedB, numGoodStars, numAvailStars, metadata, ret, err, kernelSize0,
             calls>>

vars == <<psfVars, otherVars>>

inputVars == <<key, psfCandidateList, hasMetadata, lsstDebug, kernelSize0, calls,
               otherVars>>
debugVars == <<display, displayIterations, pause, reply>>
gridVars == <<built, cells, sizes, stampSize>>
fitVars == <<psf, eigenValues, rawEigen, fitChi2, nFits, fitCount>>
clipVars == <<badCandidates, numBad, candidates, residuals, comp, mean, rms, failed,
              failedPrev, requested, markedA, markedB>>
outVars == <<numGoodStars, numAvailStars, metadata, ret, psfstar>>

Cands == DOMAIN psfCandidateList
\* the candidates held by the grid
InGrid == UNION {Range(cells[c]) : c \in 1 .. NumCells}
NotBad == {i \in InGrid : status[i] # "BAD"}

NoPsf == [fit |-> 0, used |-> {}, kernelSize |-> 0]
NoReturn == [returned |-> FALSE, psf |-> NoPsf, cellSet |-> EmptyCellSet]
NoResiduals == [i \in {} |-> <<>>]
NoMetadata == [k \in {} |-> 0]

CandidateLists == SeqsUpTo([pos : Positions, size : SizeVals], MaxCands)

Configs ==
    {[kernelSize |-> k[1], kernelSizeMin |-> k[2], kernelSizeMax |-> k[3],
      borderWidth |-> k[4], nStarPerCell |-> k[5], nIterForPsf |-> n,
      nEigenComponents |-> e] :
        k \in KernelConfigs, n \in 0 .. MaxIter, e \in NEigenVals}

\* brightStarStamps.py not imported: no stamp and no collection of stamps
NoStamps ==
    /\ stampsModule = "not imported"
    /\ annularFlux = <<>>
    /\ collections = <<>>
    /\ stampCall = [name |-> "none", raised |-> "none", on |-> 0, before |-> <<>>,
                    direct |-> FALSE]
    /\ stampCalls = 0

\* no BaseLimit
NoLimit ==
    /\ minimum = None
    /\ maximum = None
    /\ values = <<>>
    /\ limitSelected = <<>>
    /\ limitPc = "none"

NoStruct == [sourceCat |-> <<>>, selected |-> <<>>]

\* no source selector
NoSelector ==
    /\ sourceCat = [kind |-> "afw", contiguous |-> TRUE, flags |-> <<>>]
    /\ sourceCat0 = sourceCat
    /\ sourceSelectedField = FALSE
    /\ struct = NoStruct
    /\ runPc = "none"

\* no science source selector
NoScience ==
    science = [config |-> <<>>, cat |-> <<>>, selected |-> <<>>, pc |-> "none"]

InitWith(config, list, caller, debug) ==
    /\ cfg = config
    /\ kernelSize0 = config.kernelSize
    /\ calls = 1
    /\ psfCandidateList = list
    /\ key = caller[1]
    /\ hasMetadata = caller[2]
    /\ lsstDebug = debug
    /\ display = debug[1]
    /\ displayIterations = debug[2]
    /\ pause = debug[3]
    /\ reply = "y"
    /\ pc = "start"
    /\ iter = 0
    /\ built = FALSE
    /\ cells = EmptyCellSet
    /\ sizes = <<>>
    /\ stampSize = 0
    /\ status = [i \in DOMAIN list |-> "UNKNOWN"]
    /\ chi2 = [i \in DOMAIN list |-> Chi2Init]
    /\ psfstar = [i \in DOMAIN list |-> FALSE]
    /\ psf = NoPsf
    /\ eigenValues = <<>>
    /\ rawEigen = <<>>
    /\ fitChi2 = 0
    /\ nFits = 0
    /\ fitCount = 0
    /\ log = <<>>
    /\ rounds = 0
    /\ badCandidates = <<>>
    /\ numBad = 0
    /\ candidates = <<>>
    /\ residuals = NoResiduals
    /\ comp = 0
    /\ mean = 0
    /\ rms = 0
    /\ failed = {}
    /\ failedPrev = {}
    /\ requested = {}
    /\ markedA = {}
    /\ markedB = {}
    /\ numGoodStars = 0
    /\ numAvailStars = 0
    /\ metadata = NoMetadata
    /\ ret = NoReturn
    /\ err = "none"

Init ==
    /\ \E config \in Configs, list \in CandidateLists, caller \in CallerModes,
          debug \in DebugModes : InitWith(config, list, caller, debug)
    /\ NoStamps
    /\ NoLimit
    /\ NoSelector
    /\ NoScience

----------------------------------------------------------------------------
(* Steps of determinePsf *)

Raise(what) ==
    /\ pc' = "raised"
    /\ err' = what

\* line 204
NoCandidatesGuardOff(list) == FALSE
NoCandidates(list) == Len(list) = 0

\* lines 204-205
RaiseNoCandidates ==
    /\ pc = "start"
    /\ NoCandidates(psfCandidateList)
    /\ Raise("RuntimeError")
    /\ UNCHANGED <<cfg, iter, status, chi2, log, rounds>>
    /\ UNCHANGED <<inputVars, debugVars, gridVars, fitVars, clipVars, outVars>>

\* lines 207-238: the cell set, the sizes, the kernel size
Setup ==
    /\ pc = "start"
    /\ ~NoCandidates(psfCandidateList)
    /\ built' = TRUE
    /\ cells' = InsertFrom(EmptyCellSet, psfCandidateList, 1)
    /\ \E garbage \in [Cands -> GarbageVals] :
          sizes' = [i \in Cands |-> IF psfCandidateList[i].pos = 0
                                    THEN garbage[i]
                                    ELSE psfCandidateList[i].size]
    /\ IF Len(sizes') = 0
       THEN \* past the test of line 204 with no candidate: numpy.median of nothing is
            \* nan and int(nan) raises (line 227); psfCandidateList[0] raises (line 237)
            /\ Raise(IF cfg.kernelSize < AbsoluteKernelSize THEN "ValueError"
                     ELSE "IndexError")
            /\ UNCHANGED <<cfg, iter, stampSize>>
       ELSE IF KernelSizeError(cfg.kernelSize, Median2(sizes')) # "none"
       THEN \* an uninitialised element made the median nan, negative or infinite
            /\ Raise(KernelSizeError(cfg.kernelSize, Median2(sizes')))
            /\ UNCHANGED <<cfg, iter, stampSize>>
       ELSE /\ cfg' = KernelSizeStored(cfg,
                          DerivedKernelSize(cfg.kernelSize, cfg.kernelSizeMin,
                                            cfg.kernelSizeMax, Median2(sizes')))
            /\ stampSize' = cfg'.kernelSize
            /\ iter' = 0
            /\ pc' = "loop"
            /\ err' = err
    /\ UNCHANGED <<status, chi2, log, rounds>>
    /\ UNCHANGED <<inputVars, debugVars, fitVars, clipVars, outVars>>

\* line 259: range(nIterForPsf) has a value for the loop variable
RangeEndsOneEarly(i, n) == i + 1 < n
RangeHasNext(i, n) == i < n

\* line 259: the next round begins
BeginRound ==
    /\ pc = "loop"
    /\ RangeHasNext(iter, cfg.nIterForPsf)
    /\ pc' = "fit"
    /\ rounds' = rounds + 1
    /\ UNCHANGED <<cfg, iter, status, chi2, log, err>>
    /\ UNCHANGED <<inputVars, debugVars, gridVars, fitVars, clipVars, outVars>>

\* line 259: the range is exhausted
LeaveLoop ==
    /\ pc = "loop"
    /\ ~RangeHasNext(iter, cfg.nIterForPsf)
    /\ pc' = "final"
    /\ UNCHANGED <<cfg, iter, status, chi2, log, rounds, err>>
    /\ UNCHANGED <<inputVars, debugVars, gridVars, fitVars, clipVars, outVars>>

\* lines 302 and 486: an exception of _fitPsf is not caught
FitErrorSwallowed(what, next) ==
    /\ pc' = next
    /\ err' = err
FitError(what, next) == Raise(what)

\* algorithmsLib.createKernelFromPsfCandidates: too few candidates for the basis
InsufficientCandidates(count, nEigenComponents) == count < nEigenComponents

\* lines 152-172, called at line 302 (next = "reset") and at line 486 (next = "qa");
\* candChi2Vals are the chi^2 the fit may leave on a candidate
FitPsfWith(next, candChi2Vals) ==
    LET count == CountPsfCandidates(cells, cfg.nStarPerCell, status)
        nu == Nu(cfg.kernelSize, cfg.borderWidth)
    IN  /\ nFits' = nFits + 1
        /\ fitCount' = count
        /\ IF InsufficientCandidates(count, cfg.nEigenComponents)
           THEN /\ FitError("InsufficientCandidatesError", next)
                /\ UNCHANGED <<psf, eigenValues, rawEigen, fitChi2, chi2>>
           ELSE IF count * nu = 0
           THEN /\ FitError("ZeroDivisionError", next)
                /\ UNCHANGED <<psf, eigenValues, rawEigen, fitChi2, chi2>>
           ELSE \/ /\ FitError("SingularFitError", next)
                   /\ UNCHANGED <<psf, eigenValues, rawEigen, fitChi2, chi2>>
                \/ /\ pc' = next
                   /\ err' = err
                   /\ \E largest \in RawEigenVals :
                         rawEigen' = RawEigenValues(largest + cfg.nEigenComponents - 1,
                                                    cfg.nEigenComponents)
                   /\ eigenValues' = NormalizedEigenValues(rawEigen', count, nu)
                   /\ fitChi2' \in FitChi2Vals
                   /\ \E fitted \in [NotBad -> candChi2Vals] :
                         chi2' = [i \in Cands |-> IF i \in NotBad THEN fitted[i] ELSE chi2[i]]
                   /\ psf' = [fit |-> nFits + 1, used |-> NotBad,
                              kernelSize |-> cfg.kernelSize]

FitPsf(next) == FitPsfWith(next, Chi2Vals)

\* line 302
FitBasis ==
    /\ pc = "fit"
    /\ FitPsf("reset")
    /\ log' = Append(log, "fit")
    /\ UNCHANGED <<cfg, iter, status, rounds>>
    /\ UNCHANGED <<inputVars, debugVars, gridVars, clipVars, outVars>>

\* lines 307-310: the statuses after the reset
StatusResetLeftOut(cellSet, st) == st
StatusResetSkippingBad(cellSet, st) ==
    [i \in DOMAIN st |-> IF i \in Range(Visit(cellSet, TRUE, st)) THEN "UNKNOWN" ELSE st[i]]
StatusReset(cellSet, st) ==
    [i \in DOMAIN st |-> IF i \in Range(Visit(cellSet, FALSE, st)) THEN "UNKNOWN" ELSE st[i]]

\* lines 307-310
ResetStatus ==
    /\ pc = "reset"
    /\ status' = StatusReset(cells, status)
    /\ markedA' = {}
    /\ markedB' = {}
    /\ pc' = "passA"
    /\ UNCHANGED <<cfg, iter, chi2, log, rounds, err>>
    /\ UNCHANGED <<badCandidates, numBad, candidates, residuals, comp, mean, rms, failed,
                   failedPrev, requested>>
    /\ UNCHANGED <<inputVars, debugVars, gridVars, fitVars, outVars>>

\* lines 315-330
ClipChi2 ==
    /\ pc = "passA"
    /\ badCandidates' = Chi2BadCandidates(cells, status, chi2)
    /\ numBad' = NumBad(Len(badCandidates'), iter, cfg.nIterForPsf)
    /\ status' = MarkBad(status, Range(Take(badCandidates', numBad')))
    /\ markedA' = Range(Take(badCandidates', numBad'))
    /\ log' = Append(log, "passA")
    /\ pc' = "eval"
    /\ UNCHANGED <<cfg, iter, chi2, rounds, err>>
    /\ UNCHANGED <<candidates, residuals, comp, mean, rms, failed, failedPrev, requested,
                   markedB>>
    /\ UNCHANGED <<inputVars, debugVars, gridVars, fitVars, outVars>>

\* lines 349-352 and 367: the candidates appended to the list candidates
EvaluatedKeepingFailed(order, raised) == order
Evaluated(order, raised) == SelectSeq(order, LAMBDA i : i \notin raised)

\* lines 341-369; resVals are the residuals the evaluation may find.  The
\* candidates are visited in order; line 366 divides by amp (lines 357-359),
\* and a candidate whose fit gives amp = 0.0 raises ZeroDivisionError there,
\* after the candidates before it were evaluated.
EvaluateResidualsWith(resVals) ==
    /\ pc = "eval"
    /\ LET order == Visit(cells, FALSE, status)
       IN  \/ /\ requested' = Range(order)
              /\ \E raised \in SUBSET requested' :
                    /\ failed' = raised
                    /\ candidates' = Evaluated(order, raised)
              /\ residuals' \in [Range(candidates') -> [1 .. cfg.nEigenComponents -> resVals]]
              /\ comp' = 0
              /\ log' = Append(log, "eval")
              /\ pc' = IF cfg.nEigenComponents > 0 THEN "passB" ELSE "endround"
              /\ err' = err
           \/ \E zeroAmp \in 1 .. Len(order) :
                 LET before == SubSeq(order, 1, zeroAmp - 1)
                 IN  /\ requested' = Range(SubSeq(order, 1, zeroAmp))
                     /\ \E raised \in SUBSET Range(before) :
                           /\ failed' = raised
                           /\ candidates' = Evaluated(before, raised)
                     /\ residuals' \in [Range(candidates') ->
                                            [1 .. cfg.nEigenComponents -> resVals]]
                     /\ Raise("ZeroDivisionError")
                     /\ UNCHANGED <<comp, log>>
    /\ UNCHANGED <<cfg, iter, status, chi2, rounds>>
    /\ UNCHANGED <<badCandidates, numBad, mean, rms, failedPrev, markedA, markedB>>
    /\ UNCHANGED <<inputVars, debugVars, gridVars, fitVars, outVars>>

EvaluateResiduals == EvaluateResidualsWith(ResVals)

\* lines 391-406: the candidates that component k sets BAD, given its clipped
\* mean and its floored standard deviation
SpatialSelectionOfNotYetBad(k, m, r) ==
    LET bad == SelectSeq(SpatialBadCandidates(candidates, residuals, k, m, r),
                         LAMBDA i : status[i] # "BAD")
    IN  Range(Take(bad, NumBad(Len(bad), iter, cfg.nIterForPsf)))
SpatialSelection(k, m, r) ==
    LET bad == SpatialBadCandidates(candidates, residuals, k, m, r)
    IN  Range(Take(bad, NumBad(Len(bad), iter, cfg.nIterForPsf)))

\* lines 370-406, one component: k = comp
ClipSpatial ==
    /\ pc = "passB"
    /\ comp < cfg.nEigenComponents
    /\ IF Len(candidates) = 0
       THEN \* residuals is numpy.array([]), of one dimension: residuals[:,k] raises
            /\ Raise("IndexError")
            /\ UNCHANGED <<badCandidates, numBad, comp, mean, rms, status, markedB, log>>
       ELSE /\ mean' \in MeanVals
            /\ \E stdevclip \in RmsVals : rms' = FlooredRms(stdevclip)
            /\ badCandidates' = SpatialBadCandidates(candidates, residuals, comp + 1,
                                                      mean', rms')
            /\ numBad' = NumBad(Len(badCandidates'), iter, cfg.nIterForPsf)
            /\ status' = MarkBad(status, SpatialSelection(comp + 1, mean', rms'))
            /\ markedB' = markedB \cup SpatialSelection(comp + 1, mean', rms')
            /\ comp' = comp + 1
            /\ IF comp' = cfg.nEigenComponents
               THEN pc' = "endround" /\ log' = Append(log, "passB")
               ELSE pc' = pc /\ log' = log
            /\ err' = err
    /\ UNCHANGED <<cfg, iter, chi2, rounds>>
    /\ UNCHANGED <<candidates, residuals, failed, failedPrev, requested, markedA>>
    /\ UNCHANGED <<inputVars, debugVars, gridVars, fitVars, outVars>>

\* what the round leaves for the next one: its lists are rebuilt before they are read
EndOfRound ==
    /\ failedPrev' = failed
    /\ failed' = {}
    /\ requested' = {}
    /\ candidates' = <<>>
    /\ residuals' = NoResiduals
    /\ badCandidates' = <<>>
    /\ numBad' = 0
    /\ comp' = 0
    /\ mean' = 0
    /\ rms' = 0
    /\ UNCHANGED <<markedA, markedB>>

\* lines 411 and 446: the round ends without a prompt
ContinueLoop ==
    /\ pc = "endround"
    /\ ~(display /\ displayIterations /\ pause)
    /\ iter' = iter + 1
    /\ pc' = "loop"
    /\ EndOfRound
    /\ UNCHANGED <<cfg, status, chi2, log, rounds, err>>
    /\ UNCHANGED <<inputVars, debugVars, gridVars, fitVars, outVars>>

\* lines 482-483: the reply that breaks out of the loop
ReplyBreaksOnQuitToo(r) == r \in {"n", "q"}
ReplyBreaks(r) == r = "n"

\* lines 446-483: the prompt, answered r
Prompt ==
    /\ pc = "endround"
    /\ display /\ displayIterations /\ pause
    /\ \E r \in ReplyVals :
          /\ reply' = r
          /\ pause' = IF r = "c" THEN FALSE ELSE pause
          /\ display' = IF r = "q" THEN FALSE ELSE display
          /\ IF r = "s"
             THEN \* args.pop(0) on the empty list
                  Raise("IndexError") /\ iter' = iter
             ELSE IF ReplyBreaks(r)
             THEN pc' = "final" /\ iter' = iter /\ err' = err
             ELSE pc' = "loop" /\ iter' = iter + 1 /\ err' = err
    /\ EndOfRound
    /\ UNCHANGED <<cfg, status, chi2, log, rounds, displayIterations>>
    /\ UNCHANGED <<inputVars, gridVars, fitVars, outVars>>

\* lines 485-486
FinalRefit ==
    /\ pc = "final"
    /\ FitPsf("qa")
    /\ UNCHANGED <<cfg, iter, status, log, rounds>>
    /\ UNCHANGED <<inputVars, debugVars, gridVars, clipVars, outVars>>

\* lines 514-519: numAvailStars
CountAvail(cellSet, st) == Len(Visit(cellSet, FALSE, st))

\* lines 521-526: numGoodStars
CountGoodCountingBad(cellSet, st) == Len(Visit(cellSet, FALSE, st))
CountGood(cellSet, st) == Len(Visit(cellSet, TRUE, st))

\* lines 528-531: what metadata holds afterwards
MetadataDroppingChi2(given, old, chi, good, avail) ==
    IF given THEN [numGoodStars |-> good, numAvailStars |-> avail] ELSE old
MetadataAfter(given, old, chi, good, avail) ==
    IF given
    THEN [spatialFitChi2 |-> chi, numGoodStars |-> good, numAvailStars |-> avail]
    ELSE old

\* lines 521-526: the classification.psfstar flags afterwards
PsfStarWithoutKeyTest(hasKey, old, cellSet, st) ==
    [i \in DOMAIN old |-> IF i \in Range(Visit(cellSet, TRUE, st)) THEN TRUE ELSE old[i]]
PsfStarAfter(hasKey, old, cellSet, st) ==
    [i \in DOMAIN old |->
        IF hasKey /\ i \in Range(Visit(cellSet, TRUE, st)) THEN TRUE ELSE old[i]]

\* lines 514-535
GenerateQA ==
    /\ pc = "qa"
    /\ numAvailStars' = CountAvail(cells, status)
    /\ numGoodStars' = CountGood(cells, status)
    /\ psfstar' = PsfStarAfter(key, psfstar, cells, status)
    /\ metadata' = MetadataAfter(hasMetadata, metadata, fitChi2, numGoodStars',
                                 numAvailStars')
    /\ ret' = [returned |-> TRUE, psf |-> psf, cellSet |-> cells]
    /\ pc' = "done"
    /\ UNCHANGED <<cfg, iter, status, chi2, log, rounds, err>>
    /\ UNCHANGED <<inputVars, debugVars, gridVars, fitVars, clipVars>>

Next ==
    \/ RaiseNoCandidates
    \/ Setup
    \/ BeginRound
    \/ LeaveLoop
    \/ FitBasis
    \/ ResetStatus
    \/ ClipChi2
    \/ EvaluateResiduals
    \/ ClipSpatial
    \/ ContinueLoop
    \/ Prompt
    \/ FinalRefit
    \/ GenerateQA

Spec == Init /\ [][Next]_vars

----------------------------------------------------------------------------
(* The derivation of the kernel size alone (lines 204-238), over a wider   *)
(* range of configurations and candidate sizes.                            *)

KernelSpecSizes == {0, 1, 2, 4, 9}
KernelSpecKernelSizes == {0, 1, 2, 3, 5, 14, 15, 16}
KernelSpecLimits == {<<1, 45>>, <<5, 9>>, <<13, 45>>, <<7, 7>>, <<6, 8>>}

KernelSpecConfigs ==
    {[kernelSize |-> k, kernelSizeMin |-> lim[1], kernelSizeMax |-> lim[2],
      borderWidth |-> 0, nStarPerCell |-> 3, nIterForPsf |-> 0, nEigenComponents |-> 1] :
        k \in KernelSpecKernelSizes, lim \in KernelSpecLimits}

KernelSpecLists == SeqsUpTo([pos : 0 .. 1, size : KernelSpecSizes], MaxCands)

InitKernel ==
    /\ \E config \in KernelSpecConfigs, list \in KernelSpecLists :
          InitWith(config, list, <<FALSE, FALSE>>, <<FALSE, FALSE, FALSE>>)
    /\ NoStamps
    /\ NoLimit
    /\ NoSelector
    /\ NoScience

NextKernel ==
    \/ RaiseNoCandidates
    \/ Setup

SpecKernel == InitKernel /\ [][NextKernel]_vars

----------------------------------------------------------------------------
(* The clipping of Pass A (lines 315-330) over a wider range of chi^2 and   *)
(* of iteration counts: every candidate lies in the grid, one eigen         *)
(* component, no debugging.                                                 *)

ClipMaxIter == 3
\* chi^2 a fit may leave on a candidate: negative, zero, the threshold, above it, NaN
ClipSpecChi2Vals == {-1, 0, ReducedChi2ForPsfCandidates, 3, NaN}

ClipSpecConfigs ==
    {[kernelSize |-> 15, kernelSizeMin |-> 5, kernelSizeMax |-> 7,
      borderWidth |-> 1, nStarPerCell |-> 3, nIterForPsf |-> n, nEigenComponents |-> 1] :
        n \in 1 .. ClipMaxIter}

\* up to MaxCands candidates over the cells, or ClipMaxCands in the first cell
ClipMaxCands == 3
ClipSpecLists ==
    SeqsUpTo([pos : 1 .. NumCells, size : SizeVals], MaxCands)
        \cup [1 .. ClipMaxCands -> [pos : {1}, size : SizeVals]]

InitClip ==
    /\ \E config \in ClipSpecConfigs, list \in ClipSpecLists :
          InitWith(config, list, <<FALSE, FALSE>>, <<FALSE, FALSE, FALSE>>)
    /\ NoStamps
    /\ NoLimit
    /\ NoSelector
    /\ NoScience

\* line 302
ClipFitBasis ==
    /\ pc = "fit"
    /\ FitPsfWith("reset", ClipSpecChi2Vals)
    /\ log' = Append(log, "fit")
    /\ UNCHANGED <<cfg, iter, status, rounds>>
    /\ UNCHANGED <<inputVars, debugVars, gridVars, clipVars, outVars>>

\* lines 485-486
ClipFinalRefit ==
    /\ pc = "final"
    /\ FitPsfWith("qa", ClipSpecChi2Vals)
    /\ UNCHANGED <<cfg, iter, status, log, rounds>>
    /\ UNCHANGED <<inputVars, debugVars, gridVars, clipVars, outVars>>

NextClip ==
    \/ RaiseNoCandidates
    \/ Setup
    \/ BeginRound
    \/ LeaveLoop
    \/ ClipFitBasis
    \/ ResetStatus
    \/ ClipChi2
    \/ EvaluateResiduals
    \/ ClipSpatial
    \/ ContinueLoop
    \/ ClipFinalRefit
    \/ GenerateQA

SpecClip == InitClip /\ [][NextClip]_vars

----------------------------------------------------------------------------
(* The spatial clipping of Pass B (lines 341-406) over a wider range of     *)
(* residuals, with two eigen components and no debugging.                   *)

\* residuals (units of 1e-4): none, at the rejection limit of the floored rms,
\* and two sizes above it
SpatialSpecResVals == {0, SpatialReject * RmsFloor, 5, 9}

SpatialSpecConfigs ==
    {[kernelSize |-> 15, kernelSizeMin |-> 5, kernelSizeMax |-> 7,
      borderWidth |-> 1, nStarPerCell |-> 3, nIterForPsf |-> n, nEigenComponents |-> 2] :
        n \in 1 .. MaxIter}

InitSpatial ==
    /\ \E config \in SpatialSpecConfigs, list \in CandidateLists :
          InitWith(config, list, <<FALSE, FALSE>>, <<FALSE, FALSE, FALSE>>)
    /\ NoStamps
    /\ NoLimit
    /\ NoSelector
    /\ NoScience

\* lines 341-369
SpatialEvaluateResiduals == EvaluateResidualsWith(SpatialSpecResVals)

NextSpatial ==
    \/ RaiseNoCandidates
    \/ Setup
    \/ BeginRound
    \/ LeaveLoop
    \/ FitBasis
    \/ ResetStatus
    \/ ClipChi2
    \/ SpatialEvaluateResiduals
    \/ ClipSpatial
    \/ ContinueLoop
    \/ FinalRefit
    \/ GenerateQA

SpecSpatial == InitSpatial /\ [][NextSpatial]_vars

----------------------------------------------------------------------------
(* determinePsf called again on the same determiner with the same          *)
(* candidates: self.config is as the call before left it (lines 225-231),  *)
(* and the candidates keep their statuses and their chi^2.                 *)

MaxCalls == 2
AgainSpecKernelSizes == {1, 5}
AgainSpecLimits == {<<5, 9>>, <<13, 45>>}

AgainSpecConfigs ==
    {[kernelSize |-> k, kernelSizeMin |-> lim[1], kernelSizeMax |-> lim[2],
      borderWidth |-> 0, nStarPerCell |-> 3, nIterForPsf |-> 1, nEigenComponents |-> 1] :
        k \in AgainSpecKernelSizes, lim \in AgainSpecLimits}

InitAgain ==
    /\ \E config \in AgainSpecConfigs, list \in CandidateLists, debug \in DebugModes :
          InitWith(config, list, <<FALSE, FALSE>>, debug)
    /\ NoStamps
    /\ NoLimit
    /\ NoSelector
    /\ NoScience

\* lines 175-200: the next call, after the return of line 535; it reads the debug
\* settings again
CallAgain ==
    /\ pc = "done"
    /\ calls < MaxCalls
    /\ calls' = calls + 1
    /\ kernelSize0' = cfg.kernelSize
    /\ reply' = "y"
    /\ pc' = "start"
    /\ iter' = 0
    /\ built' = FALSE
    /\ cells' = EmptyCellSet
    /\ sizes' = <<>>
    /\ psf' = NoPsf
    /\ eigenValues' = <<>>
    /\ rawEigen' = <<>>
    /\ fitChi2' = 0
    /\ nFits' = 0
    /\ fitCount' = 0
    /\ log' = <<>>
    /\ rounds' = 0
    /\ badCandidates' = <<>>
    /\ numBad' = 0
    /\ candidates' = <<>>
    /\ residuals' = NoResiduals
    /\ comp' = 0
    /\ mean' = 0
    /\ rms' = 0
    /\ failed' = {}
    /\ failedPrev' = {}
    /\ requested' = {}
    /\ markedA' = {}
    /\ markedB' = {}
    /\ numGoodStars' = 0
    /\ numAvailStars' = 0
    /\ ret' = NoReturn
    /\ err' = "none"
    /\ display' = lsstDebug[1]
    /\ displayIterations' = lsstDebug[2]
    /\ pause' = lsstDebug[3]
    /\ UNCHANGED <<cfg, key, psfCandidateList, hasMetadata, lsstDebug, stampSize, status,
                   chi2, psfstar, metadata, otherVars>>

NextAgain ==
    \/ RaiseNoCandidates
    \/ Setup
    \/ BeginRound
    \/ LeaveLoop
    \/ FitBasis
    \/ ResetStatus
    \/ ClipChi2
    \/ EvaluateResiduals
    \/ ClipSpatial
    \/ ContinueLoop
    \/ Prompt
    \/ FinalRefit
    \/ GenerateQA
    \/ CallAgain

SpecAgain == InitAgain /\ [][NextAgain]_vars

----------------------------------------------------------------------------
(* BrightStarStamp and BrightStarStamps (brightStarStamps.py).  A caller      *)
(* imports the module first: the import runs the class statement of           *)
(* BrightStarStamp (lines 41-62), and only an import that raises nothing      *)
(* binds the classes, so that stamps can be made and the methods called.      *)
(* Stamp objects are passed and held by reference, so that a stamp may be     *)
(* held by several collections.  StampsBase.__init__ is taken to keep the     *)
(* stamps it is given, in order.                                              *)

StampIds == 1 .. NumStamps

\* stamp.gaiaGMag, per stamp object
gaiaGMag == [s \in StampIds |-> s]

\* the sequences of stamps a caller passes
StampLists == SeqsUpTo(StampIds, 2)

\* no determinePsf is under way
NoDeterminer ==
    InitWith([kernelSize |-> 15, kernelSizeMin |-> 5, kernelSizeMax |-> 7, borderWidth |-> 0,
              nStarPerCell |-> 3, nIterForPsf |-> 0, nEigenComponents |-> 1],
             <<>>, <<FALSE, FALSE>>, <<FALSE, FALSE, FALSE>>)

\* lines 463-475: getAnnularFluxes
GetAnnularFluxes(stamps, flux) == [i \in 1 .. Len(stamps) |-> flux[stamps[i]]]

\* lines 527-563: _checkNormalization, as the exception it raises
CheckNormalization(stamps, flux, normalize, innerRadius, outerRadius) ==
    LET fluxes == GetAnnularFluxes(stamps, flux)
        noneFluxCount == Cardinality({i \in DOMAIN fluxes : fluxes[i] = None})
        nStamps == Len(stamps)
        nFluxVals == nStamps - noneFluxCount
    IN  IF noneFluxCount # 0 /\ noneFluxCount < nStamps THEN "AttributeError"
        ELSE IF normalize
        THEN IF innerRadius = None \/ outerRadius = None THEN "AttributeError"
             ELSE IF noneFluxCount < nStamps THEN "AttributeError"
             ELSE "none"
        ELSE IF innerRadius # None /\ outerRadius # None
        THEN IF noneFluxCount # 0 THEN "AttributeError" ELSE "none"
        ELSE IF nFluxVals # 0 THEN "AttributeError" ELSE "none"

\* lines 518-525: _checkRadius, as the exception it raises
CheckRadius(self, innerRadius, outerRadius) ==
    IF innerRadius # self.innerRadius \/ outerRadius # self.outerRadius
    THEN "AttributeError"
    ELSE "none"

\* lines 193-197: the instance __init__ leaves
NewStamps(stamps, innerRadius, outerRadius) ==
    [stamps |-> stamps, innerRadius |-> innerRadius, outerRadius |-> outerRadius,
     normalized |-> (innerRadius # None /\ outerRadius # None)]

\* lines 507-509: the stamps selectByMag keeps
MagSubset(stamps, magMin, magMax) ==
    SelectSeq(stamps, LAMBDA s : /\ (magMin = None \/ gaiaGMag[s] > magMin)
                                 /\ (magMax = None \/ gaiaGMag[s] < magMax))

StampCalled(name, raised, on, before) ==
    /\ stampCall' = [name |-> name, raised |-> raised, on |-> on, before |-> before,
                     direct |-> stampCall.direct \/ name = "measureAndNormalize"]
    /\ stampCalls' = stampCalls + 1

\* lines 57-62: the fields of BrightStarStamp in the order of their annotations, and
\* whether each has a default
BrightStarStampFields ==
    <<[name |-> "stamp_im", default |-> FALSE], [name |-> "gaiaGMag", default |-> FALSE],
      [name |-> "gaiaId", default |-> FALSE], [name |-> "annularFlux", default |-> TRUE],
      [name |-> "XY0", default |-> FALSE], [name |-> "transform", default |-> TRUE]>>

RECURSIVE FieldOrderError(_, _, _)
\* line 41: @dataclass builds __init__ from the fields i, i+1, ...; a field without a
\* default after one with a default is a TypeError
FieldOrderError(fields, i, seenDefault) ==
    IF i > Len(fields) THEN "none"
    ELSE IF fields[i].default THEN FieldOrderError(fields, i + 1, TRUE)
    ELSE IF seenDefault THEN "TypeError"
    ELSE FieldOrderError(fields, i + 1, FALSE)

\* lines 22-62: import of the module, up to the definition of BrightStarStamp; what
\* the definition raises ends the import, and the classes are not bound
ImportBrightStarStamps ==
    /\ stampsModule = "not imported"
    /\ LET raised == FieldOrderError(BrightStarStampFields, 1, FALSE)
       IN  /\ stampsModule' = IF raised = "none" THEN "imported" ELSE raised
           /\ StampCalled("import", raised, 0, <<>>)
    /\ UNCHANGED <<annularFlux, collections, psfVars, limitVars, runVars, science>>

\* the classes are bound and the caller's stamp objects are made
StampsMade == stampsModule = "imported" /\ annularFlux # <<>>

\* lines 41-62 and 64-96: the caller makes its BrightStarStamp objects, each with or
\* without an annularFlux
MakeStamps ==
    /\ stampsModule = "imported"
    /\ annularFlux = <<>>
    /\ annularFlux' \in [StampIds -> {None} \cup FluxVals]
    /\ UNCHANGED <<stampsModule, collections, stampCall, stampCalls, psfVars, limitVars,
                   runVars, science>>

\* lines 98-137: stamp.measureAndNormalize(annulus), called on a stamp directly
MeasureAndNormalize ==
    /\ StampsMade
    /\ stampCalls < MaxStampCalls
    /\ \E stamp \in StampIds, measured \in FluxVals :
          annularFlux' = [annularFlux EXCEPT ![stamp] = measured]
    /\ StampCalled("measureAndNormalize", "none", 0, <<>>)
    /\ UNCHANGED <<stampsModule, collections, psfVars, limitVars, runVars, science>>

\* lines 186-198: BrightStarStamps(starStamps, innerRadius, outerRadius)
Construct ==
    /\ StampsMade
    /\ stampCalls < MaxStampCalls
    /\ Len(collections) < MaxCollections
    /\ \E starStamps \in StampLists, innerRadius \in RadiusVals, outerRadius \in RadiusVals :
          LET raised == CheckNormalization(starStamps, annularFlux, FALSE, innerRadius,
                                           outerRadius)
          IN  /\ collections' = IF raised = "none"
                                 THEN Append(collections,
                                             NewStamps(starStamps, innerRadius, outerRadius))
                                 ELSE collections
              /\ StampCalled("init", raised, 0, <<>>)
    /\ UNCHANGED <<stampsModule, annularFlux, psfVars, limitVars, runVars, science>>

\* lines 200-275: BrightStarStamps.initAndNormalize(starStamps, innerRadius, outerRadius)
InitAndNormalize ==
    /\ StampsMade
    /\ stampCalls < MaxStampCalls
    /\ Len(collections) < MaxCollections
    /\ \E starStamps \in StampLists, innerRadius \in RadiusVals \ {None},
          outerRadius \in RadiusVals \ {None}, measured \in FluxVals :
          LET raised ==
                  IF Len(starStamps) = 0 THEN "IndexError"
                  ELSE IF CheckNormalization(starStamps, annularFlux, FALSE, None, None)
                          # "none"
                  THEN "AttributeError"
                  ELSE CheckNormalization(starStamps, annularFlux, TRUE, innerRadius,
                                          outerRadius)
          IN  /\ IF raised = "none"
                 THEN /\ annularFlux' = [s \in StampIds |->
                                            IF s \in Range(starStamps) THEN measured
                                            ELSE annularFlux[s]]
                      /\ collections' =
                            Append(collections,
                                   [NewStamps(starStamps, innerRadius, outerRadius)
                                       EXCEPT !.normalized = TRUE])
                 ELSE UNCHANGED <<annularFlux, collections>>
              /\ StampCalled("initAndNormalize", raised, 0, <<>>)
    /\ UNCHANGED <<stampsModule, psfVars, limitVars, runVars, science>>

\* lines 404-428: self.append(item, innerRadius, outerRadius)
AppendStamp ==
    /\ StampsMade
    /\ stampCalls < MaxStampCalls
    /\ \E c \in DOMAIN collections, item \in StampIds, innerRadius \in RadiusVals,
          outerRadius \in RadiusVals :
          LET self == collections[c]
              raised == IF (annularFlux[item] = None) = self.normalized
                        THEN "AttributeError"
                        ELSE CheckRadius(self, innerRadius, outerRadius)
          IN  /\ Len(self.stamps) < MaxStamps
              /\ collections' = IF raised = "none"
                                 THEN [collections EXCEPT ![c].stamps = Append(@, item)]
                                 ELSE collections
              /\ StampCalled("append", raised, c, self.stamps)
    /\ UNCHANGED <<stampsModule, annularFlux, psfVars, limitVars, runVars, science>>

\* lines 430-443: self.extend(bss)
ExtendStamps ==
    /\ StampsMade
    /\ stampCalls < MaxStampCalls
    /\ \E c \in DOMAIN collections, d \in DOMAIN collections :
          LET self == collections[c]
              bss == collections[d]
              raised == CheckRadius(self, bss.innerRadius, bss.outerRadius)
          IN  /\ Len(self.stamps) + Len(bss.stamps) <= MaxStamps
              /\ collections' = IF raised = "none"
                                 THEN [collections EXCEPT ![c].stamps = @ \o bss.stamps]
                                 ELSE collections
              /\ StampCalled("extend", raised, c, self.stamps)
    /\ UNCHANGED <<stampsModule, annularFlux, psfVars, limitVars, runVars, science>>

\* lines 496-516: self.selectByMag(magMin, magMax)
SelectByMag ==
    /\ StampsMade
    /\ stampCalls < MaxStampCalls
    /\ Len(collections) < MaxCollections
    /\ \E c \in DOMAIN collections, magMin \in MagLimitVals, magMax \in MagLimitVals :
          LET self == collections[c]
              raised == CheckNormalization(<<>>, annularFlux, FALSE, self.innerRadius,
                                           self.outerRadius)
              instance == [NewStamps(<<>>, self.innerRadius, self.outerRadius)
                              EXCEPT !.stamps = MagSubset(self.stamps, magMin, magMax)]
          IN  /\ collections' = IF raised = "none" THEN Append(collections, instance)
                                 ELSE collections
              /\ StampCalled("selectByMag", raised, c, self.stamps)
    /\ UNCHANGED <<stampsModule, annularFlux, psfVars, limitVars, runVars, science>>

\* before the import: no stamp and no collection
InitStamps ==
    /\ NoDeterminer
    /\ NoStamps
    /\ NoLimit
    /\ NoSelector
    /\ NoScience

NextStamps ==
    \/ ImportBrightStarStamps
    \/ MakeStamps
    \/ MeasureAndNormalize
    \/ Construct
    \/ InitAndNormalize
    \/ AppendStamp
    \/ ExtendStamps
    \/ SelectByMag

SpecStamps == InitStamps /\ [][NextStamps]_vars


----------------------------------------------------------------------------
(* BaseLimit.apply (sourceSelector.py)                                        *)

\* line 199: values > self.minimum, for one element
AtOrAboveMinimum(v, lo) == ~Lt(v, lo)
AboveMinimum(v, lo) == Gt(v, lo)

\* line 201: values < self.maximum, for one element
BelowMaximum(v, hi) == Lt(v, hi)

\* lines 196-202
ApplyLimit(vals, lo, hi) ==
    LET ones == [i \in 1 .. Len(vals) |-> TRUE]
        afterMinimum == IF lo # None
                        THEN [i \in DOMAIN ones |-> ones[i] /\ AboveMinimum(vals[i], lo)]
                        ELSE ones
    IN  IF hi # None
        THEN [i \in DOMAIN ones |-> afterMinimum[i] /\ BelowMaximum(vals[i], hi)]
        ELSE afterMinimum

\* lines 179-202: apply(values)
Apply ==
    /\ limitPc = "start"
    /\ limitSelected' = ApplyLimit(values, minimum, maximum)
    /\ limitPc' = "returned"
    /\ UNCHANGED <<minimum, maximum, values, psfVars, stampVars, runVars, science>>

InitLimit ==
    /\ NoDeterminer
    /\ NoStamps
    /\ NoSelector
    /\ NoScience
    /\ minimum \in LimitVals
    /\ maximum \in LimitVals
    /\ values \in SeqsUpTo(ValueVals, MaxValues)
    /\ limitSelected = <<>>
    /\ limitPc = "start"

NextLimit == Apply

SpecLimit == InitLimit /\ [][NextLimit]_vars

----------------------------------------------------------------------------
(* BaseSourceSelectorTask.run (sourceSelector.py); selectSources is abstract  *)
(* and returns a boolean array of the length of the catalog (lines 152-154).  *)

\* lines 111-114: the catalog has isContiguous and is not contiguous
NotContiguous(cat) == cat.kind = "afw" /\ ~cat.contiguous

\* lines 120-128: the flags of the catalog after they are set from selected
FlagsOnlySet(flags, selected) ==
    [i \in DOMAIN flags |-> flags[i] \/ (i \in DOMAIN selected /\ selected[i])]
FlagsAfter(flags, selected) ==
    [i \in DOMAIN flags |-> IF i \in DOMAIN selected THEN selected[i] ELSE flags[i]]

RECURSIVE MaskedFrom(_, _)
\* line 129: sourceCat[result.selected], the rows i, i+1, ... of the input
MaskedFrom(selected, i) ==
    IF i > Len(selected) THEN <<>>
    ELSE (IF selected[i] THEN <<i>> ELSE <<>>) \o MaskedFrom(selected, i + 1)

Masked(selected) == MaskedFrom(selected, 1)

\* lines 73-130: run(sourceCat, sourceSelectedField)
Run ==
    /\ runPc = "start"
    /\ IF NotContiguous(sourceCat)
       THEN /\ runPc' = "raised"
            /\ UNCHANGED <<sourceCat, struct>>
       ELSE \E selected \in [DOMAIN sourceCat.flags -> BOOLEAN] :
               /\ sourceCat' = IF sourceSelectedField
                                THEN [sourceCat EXCEPT !.flags = FlagsAfter(@, selected)]
                                ELSE sourceCat
               /\ struct' = [sourceCat |-> Masked(selected), selected |-> selected]
               /\ runPc' = "returned"
    /\ UNCHANGED <<sourceCat0, sourceSelectedField, psfVars, stampVars, limitVars, science>>

InitRun ==
    /\ NoDeterminer
    /\ NoStamps
    /\ NoLimit
    /\ NoScience
    /\ sourceCat \in [kind : CatalogKinds, contiguous : BOOLEAN,
                       flags : SeqsUpTo(BOOLEAN, MaxSources)]
    /\ sourceCat.kind = "table" => sourceCat.contiguous
    /\ sourceCat0 = sourceCat
    /\ sourceSelectedField \in BOOLEAN
    /\ struct = NoStruct
    /\ runPc = "start"

NextRun == Run

SpecRun == InitRun /\ [][NextRun]_vars

----------------------------------------------------------------------------
(* ScienceSourceSelectorTask.selectSources (sourceSelector.py, lines 510-558) *)
(* A source is the record of the columns the five criteria read with the     *)
(* default column names: calibFlux and calibFlag (slot_CalibFlux_instFlux    *)
(* and its _flag), flags (the columns that flags.good and flags.bad name:    *)
(* base_PixelFlags_flag_edge, base_PixelFlags_flag_saturated and             *)
(* base_PsfFlux_flags),                                                      *)
(* extendedness (base_ClassificationExtendedness_value, in halves, so that   *)
(* the default maximum 0.5 is 1), psfFlux, psfFluxErr and psfFlag            *)
(* (base_PsfFlux_instFlux, its Err and its _flag), parent and nChild.        *)

\* the sources of the catalogs: one that passes every criterion, and the ones that
\* differ from it in one column
ScienceSources ==
    LET good == [calibFlux |-> 3, calibFlag |-> FALSE,
                 flags |-> [edge |-> FALSE, saturated |-> FALSE, psfFlux |-> FALSE],
                 extendedness |-> 0, psfFlux |-> 6, psfFluxErr |-> 2, psfFlag |-> FALSE,
                 parent |-> 0, nChild |-> 0]
    IN  {good,
         [good EXCEPT !.calibFlux = 2], [good EXCEPT !.calibFlux = NaN],
         [good EXCEPT !.calibFlag = TRUE],
         [good EXCEPT !.flags.edge = TRUE], [good EXCEPT !.flags.saturated = TRUE],
         [good EXCEPT !.flags.psfFlux = TRUE],
         [good EXCEPT !.extendedness = 2],
         [good EXCEPT !.psfFlux = 4], [good EXCEPT !.psfFlag = TRUE],
         [good EXCEPT !.parent = 7], [good EXCEPT !.nChild = 2]}

\* lines 254-273: FluxLimit.apply(catalog)
FluxLimitApply(limit, catalog) ==
    LET selected == [i \in DOMAIN catalog |-> ~catalog[i].calibFlag]
        flux == [i \in DOMAIN catalog |-> catalog[i].calibFlux]
        inLimits == ApplyLimit(flux, limit.minimum, limit.maximum)
    IN  [i \in DOMAIN catalog |-> selected[i] /\ inLimits[i]]

\* lines 327-348: SignalToNoiseLimit.apply(catalog); the catalogs hold fluxes that are
\* multiples of their errors, so that flux/err is the integer quotient
SignalToNoiseLimitApply(limit, catalog) ==
    LET selected == [i \in DOMAIN catalog |-> ~catalog[i].psfFlag]
        signalToNoise == [i \in DOMAIN catalog |->
                             catalog[i].psfFlux \div catalog[i].psfFluxErr]
        inLimits == ApplyLimit(signalToNoise, limit.minimum, limit.maximum)
    IN  [i \in DOMAIN catalog |-> selected[i] /\ inLimits[i]]

\* lines 394-414: RequireFlags.apply(catalog)
RequireFlagsApply(flags, catalog) ==
    [i \in DOMAIN catalog |->
        /\ \A flag \in Range(flags.good) : catalog[i].flags[flag]
        /\ \A flag \in Range(flags.bad) : ~catalog[i].flags[flag]]

\* lines 435-452: RequireUnresolved.apply(catalog)
RequireUnresolvedApply(limit, catalog) ==
    ApplyLimit([i \in DOMAIN catalog |-> catalog[i].extendedness],
               limit.minimum, limit.maximum)

\* lines 469-487: RequireIsolated.apply(catalog)
RequireIsolatedApply(catalog) ==
    [i \in DOMAIN catalog |-> catalog[i].parent = 0 /\ catalog[i].nChild = 0]

\* lines 550-558 with the flags applied whether or not doFlags is set
SelectSourcesFlagsAlways(config, catalog) ==
    LET ones == [i \in DOMAIN catalog |-> TRUE]
        flux == IF config.doFluxLimit THEN FluxLimitApply(config.fluxLimit, catalog)
                ELSE ones
        flags == RequireFlagsApply(config.flags, catalog)
        unresolved == IF config.doUnresolved
                      THEN RequireUnresolvedApply(config.unresolved, catalog) ELSE ones
        snr == IF config.doSignalToNoise
               THEN SignalToNoiseLimitApply(config.signalToNoise, catalog) ELSE ones
        isolated == IF config.doIsolated THEN RequireIsolatedApply(catalog) ELSE ones
    IN  [i \in DOMAIN catalog |->
            flux[i] /\ flags[i] /\ unresolved[i] /\ snr[i] /\ isolated[i]]

\* lines 546-558: selected after each "if self.config.doX: selected &= X.apply(catalog)"
SelectSources(config, catalog) ==
    LET selected0 == [i \in DOMAIN catalog |-> TRUE]
        selected1 == IF config.doFluxLimit
                     THEN LET a == FluxLimitApply(config.fluxLimit, catalog)
                          IN  [i \in DOMAIN catalog |-> selected0[i] /\ a[i]]
                     ELSE selected0
        selected2 == IF config.doFlags
                     THEN LET a == RequireFlagsApply(config.flags, catalog)
                          IN  [i \in DOMAIN catalog |-> selected1[i] /\ a[i]]
                     ELSE selected1
        selected3 == IF config.doUnresolved
                     THEN LET a == RequireUnresolvedApply(config.unresolved, catalog)
                          IN  [i \in DOMAIN catalog |-> selected2[i] /\ a[i]]
                     ELSE selected2
        selected4 == IF config.doSignalToNoise
                     THEN LET a == SignalToNoiseLimitApply(config.signalToNoise, catalog)
                          IN  [i \in DOMAIN catalog |-> selected3[i] /\ a[i]]
                     ELSE selected3
    IN  IF config.doIsolated
        THEN LET a == RequireIsolatedApply(catalog)
             IN  [i \in DOMAIN catalog |-> selected4[i] /\ a[i]]
        ELSE selected4

\* lines 522-558: selectSources(sourceCat), with sourceCat in science.cat
SelectScience ==
    /\ science.pc = "start"
    /\ science' = [science EXCEPT !.selected = SelectSources(science.config, science.cat),
                                  !.pc = "returned"]
    /\ UNCHANGED <<psfVars, stampVars, limitVars, runVars>>

\* lines 490-507: a ScienceSourceSelectorConfig with its defaults (the edge, saturated
\* and PSF flux flags bad, unresolved.maximum 0.5), any of the five criteria switched on, and
\* the limits of the flux and of the signal to noise set or left None
InitScience ==
    /\ NoDeterminer
    /\ NoStamps
    /\ NoLimit
    /\ NoSelector
    /\ \E do \in [1 .. 5 -> BOOLEAN], fluxMinimum \in {None, 2}, snrMinimum \in {None, 2},
          cat \in SeqsUpTo(ScienceSources, 2) :
          science = [config |-> [doFluxLimit |-> do[1], doFlags |-> do[2],
                                 doUnresolved |-> do[3], doSignalToNoise |-> do[4],
                                 doIsolated |-> do[5],
                                 fluxLimit |-> [minimum |-> fluxMinimum, maximum |-> None],
                                 flags |-> [good |-> <<>>,
                                           bad |-> <<"edge", "saturated", "psfFlux">>],
                                 unresolved |-> [minimum |-> None, maximum |-> 1],
                                 signalToNoise |-> [minimum |-> snrMinimum,
                                                    maximum |-> None]],
                     cat |-> cat, selected |-> <<>>, pc |-> "start"]

SpecScience == InitScience /\ [][SelectScience]_vars

----------------------------------------------------------------------------
(* Properties *)

RoundSteps == <<"fit", "passA", "eval", "passB">>

RECURSIVE RoundsLog(_)
\* the steps of n complete rounds
RoundsLog(n) == IF n = 0 THEN <<>> ELSE RoundsLog(n - 1) \o RoundSteps

\* the steps of the round under way that precede the step at pc
StepsBefore(at) ==
    CASE at = "fit" -> <<>>
      [] at \in {"reset", "passA"} -> <<"fit">>
      [] at = "eval" -> <<"fit", "passA">>
      [] at = "passB" -> <<"fit", "passA", "eval">>
      [] OTHER -> RoundSteps

InRound == pc \in {"fit", "reset", "passA", "eval", "passB", "endround"}
LoopLeft == pc \in {"final", "qa", "done"}
\* the prompt was answered "n": the break of line 483
StoppedByReply == reply = "n"

\* C1, as stated: a run that does not raise has made exactly nIterForPsf rounds,
\* each of them one basis fit, Pass A, one residual evaluation and Pass B, in
\* that order.
C1_AllRoundsAlways ==
    pc = "done" => rounds = cfg.nIterForPsf /\ log = RoundsLog(cfg.nIterForPsf)

\* C1, amended: a run that does not raise has made exactly nIterForPsf rounds,
\* or, when display, displayIterations and pause are all on and the prompt was
\* answered "n", at least one round and fewer; each round made is one basis
\* fit, then Pass A, then one residual evaluation, then Pass B, and the rounds
\* follow one another with none skipped.  Up to the point a run has reached,
\* the steps made are those rounds and the steps of the round under way.
C1_RoundsInOrder ==
    /\ InRound => /\ rounds = iter + 1
                  /\ log = RoundsLog(rounds - 1) \o StepsBefore(pc)
    /\ pc = "loop" => rounds = iter /\ log = RoundsLog(rounds)
    /\ LoopLeft => /\ log = RoundsLog(rounds)
                   /\ rounds <= cfg.nIterForPsf
                   /\ rounds < cfg.nIterForPsf =>
                         /\ StoppedByReply
                         /\ display /\ displayIterations /\ pause
                         /\ rounds >= 1
                   /\ ~StoppedByReply => rounds = cfg.nIterForPsf

\* a run of two rounds has ended
C1_Witness ==
    pc = "done" /\ rounds = 2 /\ cfg.nIterForPsf = 2 /\ log = RoundsLog(2)

\* C2, as stated: a completed run has made nIterForPsf + 1 basis fits, and the
\* PSF returned is that of the last one, made from the statuses the last
\* round's clipping left.
C2_FitsAreIterationsPlusOne ==
    pc = "done" => /\ nFits = cfg.nIterForPsf + 1
                   /\ ret.psf.fit = nFits
                   /\ ret.psf.used = InGrid \ (markedA \cup markedB)

\* C2, amended: a completed run has made one basis fit per round and one more
\* after the loop (nIterForPsf + 1 in all unless the prompt was answered "n"),
\* and the PSF returned is that of the last fit, made from the candidates the
\* last round's clipping did not set BAD.
C2_FinalRefitReturned ==
    /\ pc \in {"qa", "done"} =>
          /\ nFits = rounds + 1
          /\ ~StoppedByReply => nFits = cfg.nIterForPsf + 1
          /\ psf.fit = nFits
          /\ psf.used = InGrid \ (markedA \cup markedB)
    /\ pc = "done" => ret.returned /\ ret.psf = psf

\* a run of two rounds has returned a PSF made without a candidate that the
\* last round set BAD
C2_Witness ==
    /\ pc = "done"
    /\ rounds = 2
    /\ ret.psf.fit = 3
    /\ markedA \cup markedB # {}
    /\ ret.psf.used # {}

\* C3: when determinePsf finishes, numAvailStars is the number of candidates in
\* the grid, numGoodStars the number of those that are not BAD, and the two
\* differ by the number of BAD ones.
C3_QACounters ==
    pc = "done" =>
        /\ numAvailStars = Cardinality(InGrid)
        /\ numGoodStars = Cardinality({i \in InGrid : status[i] # "BAD"})
        /\ numGoodStars + Cardinality({i \in InGrid : status[i] = "BAD"}) = numAvailStars

\* a run has finished with a BAD candidate and a good one in the grid
C3_Witness ==
    /\ pc = "done"
    /\ \E i, j \in InGrid : status[i] = "BAD" /\ status[j] # "BAD"
    /\ numGoodStars = 1
    /\ numAvailStars = 2

\* C4: a basis fit that finds fewer than nEigenComponents candidates that are
\* not BAD, in a round or after the loop, raises InsufficientCandidatesError;
\* determinePsf ends there and returns nothing.
C4_InsufficientCandidatesAborts ==
    (nFits > 0 /\ fitCount < cfg.nEigenComponents) =>
        /\ pc = "raised"
        /\ err = "InsufficientCandidatesError"
        /\ ~ret.returned
        /\ ret.psf = NoPsf
        /\ psf.fit < nFits

\* the refit after the loop found too few candidates left
C4_Witness ==
    /\ pc = "raised"
    /\ err = "InsufficientCandidatesError"
    /\ rounds >= 1
    /\ nFits = rounds + 1
    /\ 0 < fitCount
    /\ fitCount < cfg.nEigenComponents

\* C5: with an empty candidate list determinePsf raises before it builds the
\* cell set, changes a candidate, a source or config.kernelSize, or fits.
C5_EmptyListRaisesFirst ==
    Len(psfCandidateList) = 0 =>
        /\ pc \in {"start", "raised"}
        /\ pc = "raised" => err = "RuntimeError"
        /\ ~built
        /\ cells = EmptyCellSet
        /\ cfg.kernelSize = kernelSize0
        /\ stampSize = 0
        /\ nFits = 0
        /\ log = <<>>
        /\ ~ret.returned

\* determinePsf has raised on an empty list
C5_Witness ==
    Len(psfCandidateList) = 0 /\ pc = "raised" /\ err = "RuntimeError"

\* C6: a candidate whose getUndistImage raises in a round is not in that
\* round's residual list and has no residual; the spatial clip of the round
\* does not set it BAD (it is BAD only if the chi^2 clip had set it so), and
\* the residual evaluation of the next round asks for its image again.
C6_FailedCutoutSkippedAndRetried ==
    /\ \A i \in failed :
          /\ i \notin Range(candidates)
          /\ i \notin DOMAIN residuals
          /\ i \notin markedB
          /\ status[i] = "BAD" <=> i \in markedA
    /\ pc \in {"passB", "endround"} =>
          /\ requested = InGrid
          /\ failedPrev \subseteq requested
          /\ failed \subseteq requested

\* in the second round, the image of a candidate that failed in the first is
\* asked for again, another candidate's image fails, and the spatial clip has
\* set a third candidate, or the other one, BAD
C6_Witness ==
    /\ pc = "endround"
    /\ rounds = 2
    /\ failedPrev # {}
    /\ failedPrev \subseteq requested
    /\ failed # {}
    /\ markedB # {}

\* C7, as stated: whichever images fail in the residual evaluation of a round,
\* all of them included, determinePsf does not raise in that round.
C7_CutoutFailuresNeverAbort ==
    failed # {} => pc # "raised"

\* C8: config.kernelSize after the derivation is the configured value when
\* that is at least 15, and otherwise 2*r + 1 clamped into
\* [kernelSizeMin, kernelSizeMax], r being the integer nearest to
\* kernelSize * sqrt(median of sizes).
NearestInteger(r, k, m2) ==
    /\ r = 0 \/ (2 * r - 1) * (2 * r - 1) <= 2 * k * k * m2
    /\ 2 * k * k * m2 <= (2 * r + 1) * (2 * r + 1)

Clamped(v, lo, hi) == IF v < lo THEN lo ELSE IF v > hi THEN hi ELSE v

C8_KernelSizeDerivation ==
    pc = "loop" =>
        IF kernelSize0 >= 15
        THEN cfg.kernelSize = kernelSize0
        ELSE \E r \in 0 .. 45 :
                /\ NearestInteger(r, kernelSize0, Median2(sizes))
                /\ cfg.kernelSize = Clamped(2 * r + 1, cfg.kernelSizeMin, cfg.kernelSizeMax)

\* a scaled kernel size strictly inside the limits, the product being rounded up
C8_Witness ==
    /\ pc = "loop"
    /\ kernelSize0 < 15
    /\ cfg.kernelSizeMin < cfg.kernelSize
    /\ cfg.kernelSize < cfg.kernelSizeMax
    /\ cfg.kernelSize = 2 * IntTruncated(kernelSize0, Median2(sizes)) + 3

Delivered ==
    (IF ret.returned THEN {"psf", "psfCellSet"} ELSE {}) \cup DOMAIN metadata

\* C10, as stated: a completed run delivers the final PSF, the final
\* eigenvalues, the final fit chi-square and both QA counters.
C10_DeliversEverything ==
    pc = "done" =>
        {"psf", "eigenValues", "spatialFitChi2", "numGoodStars", "numAvailStars"}
            \subseteq Delivered

\* C10, amended: a completed run returns the PSF of the last fit and the cell
\* set; the fit chi-square and both QA counters are stored in metadata when
\* metadata is given, and not delivered otherwise; the eigenvalues are not
\* delivered.
C10_ReturnsPsfAndStoresQA ==
    pc = "done" =>
        /\ ret = [returned |-> TRUE, psf |-> psf, cellSet |-> cells]
        /\ psf.fit = nFits
        /\ hasMetadata =>
              /\ DOMAIN metadata = {"spatialFitChi2", "numGoodStars", "numAvailStars"}
              /\ metadata.spatialFitChi2 = fitChi2
              /\ metadata.numGoodStars = numGoodStars
              /\ metadata.numAvailStars = numAvailStars
        /\ ~hasMetadata => Delivered = {"psf", "psfCellSet"}
        /\ "eigenValues" \notin Delivered

\* a run given metadata has returned, with a BAD candidate in the grid
C10_Witness ==
    /\ pc = "done"
    /\ hasMetadata
    /\ ret.returned
    /\ metadata.numGoodStars < metadata.numAvailStars

\* C11: a determiner built without a schema sets the psfstar flag of no source;
\* one built with a schema has, when determinePsf returns, set it on the source
\* of exactly the candidates of the grid that are not BAD after the last round,
\* and on no source before that.
C11_PsfStarFlags ==
    /\ ~key => \A i \in Cands : ~psfstar[i]
    /\ pc # "done" => \A i \in Cands : ~psfstar[i]
    /\ (pc = "done" /\ key) =>
          \A i \in Cands : psfstar[i] <=> (i \in InGrid /\ status[i] # "BAD")

\* a run with a schema has returned with a flagged candidate and a BAD one
C11_Witness ==
    /\ pc = "done"
    /\ key
    /\ \E i, j \in InGrid : psfstar[i] /\ ~psfstar[j] /\ status[j] = "BAD"

\* what a round hands to the next step of the fit: everything but the debug
\* settings, the reply and the position in determinePsf
fitView == <<cfg, cells, sizes, stampSize, status, chi2, psfstar, psf, eigenValues,
             fitChi2, nFits, log, rounds, numGoodStars, numAvailStars, metadata, ret>>

\* the end of a round as it is without debugging: on to the next value of iter
EndsAsWithoutDebug ==
    /\ pc' = "loop"
    /\ iter' = iter + 1
    /\ err' = err
    /\ UNCHANGED fitView

\* C12, as stated: the debug settings and the replies at the prompt have no
\* effect on the fit: every round ends as it does without debugging, whatever
\* is displayed and whatever is typed.
C12_DebugHasNoEffect ==
    [][pc = "endround" => EndsAsWithoutDebug]_vars

\* C12, amended: the debug settings and the replies have no effect on the fit,
\* except that a reply of "n" ends the loop after the round and a reply of "s"
\* without a file name raises: a round that ends otherwise ends as it does
\* without debugging, and no other step reads or changes the debug settings.
C12_OnlyNoAndSaveChangeTheRun ==
    [][/\ pc = "endround" =>
             \/ EndsAsWithoutDebug
             \/ display /\ displayIterations /\ pause /\ reply' = "n" /\ pc' = "final"
                   /\ iter' = iter /\ UNCHANGED fitView
             \/ display /\ displayIterations /\ pause /\ reply' = "s" /\ pc' = "raised"
                   /\ err' = "IndexError" /\ UNCHANGED fitView
       /\ pc # "endround" => UNCHANGED debugVars]_vars

\* a run of two rounds under the debugger, the display quit at the first prompt,
\* has returned
C12_Witness ==
    /\ pc = "done"
    /\ reply = "q"
    /\ ~display
    /\ rounds = 2
    /\ nFits = 3

\* the stamps of a collection are all normalized or all unnormalized, as its
\* attribute normalized says
AgreesWithNormalized(c) ==
    \A i \in DOMAIN c.stamps : (annularFlux[c.stamps[i]] # None) <=> c.normalized

\* C13, as stated: after any sequence of constructions, initAndNormalize,
\* append, extend and selectByMag (and no other call on a stamp), the stamps of
\* every collection are all normalized or all unnormalized, as its attribute
\* normalized says; and an append or extend that raises leaves the stamps of
\* the collection unchanged.
\* The import of the module raises before any collection is made, so that in
\* SpecStamps this holds without a collection ever existing.
C13_CollectionsNeverMixed ==
    ~stampCall.direct =>
    /\ \A c \in DOMAIN collections : AgreesWithNormalized(collections[c])
    /\ (stampCall.name \in {"append", "extend"} /\ stampCall.raised # "none") =>
          collections[stampCall.on].stamps = stampCall.before

\* C14: BaseLimit.apply returns one boolean per value, true exactly when the
\* value is strictly above the minimum, if one is set, and strictly below the
\* maximum, if one is set; a value equal to a bound, or NaN against a bound
\* that is set, is not selected, and with no bound set every value is.
C14_ApplyIsStrictOnBothSides ==
    limitPc = "returned" =>
        /\ Len(limitSelected) = Len(values)
        /\ \A i \in DOMAIN values :
              limitSelected[i] <=>
                  /\ minimum = None \/ (values[i] # NaN /\ values[i] > minimum)
                  /\ maximum = None \/ (values[i] # NaN /\ values[i] < maximum)
        /\ (minimum = None /\ maximum = None) => \A i \in DOMAIN values : limitSelected[i]

\* apply has returned on a value equal to the minimum, one equal to the maximum
\* and one between the two
C14_Witness ==
    /\ limitPc = "returned"
    /\ minimum # None
    /\ maximum # None
    /\ \E i, j, k \in DOMAIN values :
          /\ values[i] = minimum /\ ~limitSelected[i]
          /\ values[j] = maximum /\ ~limitSelected[j]
          /\ limitSelected[k]

\* C15: when run returns, selected has one boolean per source of the input, the
\* catalog returned is made of exactly the rows of the input whose entry is
\* True, in the order of the input; with sourceSelectedField given the flag of
\* every source of the input equals its entry, and with None the input catalog
\* is as it was.
C15_RunSelectsAndFlags ==
    runPc = "returned" =>
        /\ DOMAIN struct.selected = DOMAIN sourceCat0.flags
        /\ Range(struct.sourceCat) = {i \in DOMAIN struct.selected : struct.selected[i]}
        /\ \A j, k \in DOMAIN struct.sourceCat :
              j < k => struct.sourceCat[j] < struct.sourceCat[k]
        /\ sourceSelectedField =>
              \A i \in DOMAIN sourceCat.flags : sourceCat.flags[i] = struct.selected[i]
        /\ ~sourceSelectedField => sourceCat = sourceCat0

\* run has returned two of three sources, having cleared the flag of the
\* source it did not select and set the flag of one it selected
C15_Witness ==
    /\ runPc = "returned"
    /\ sourceSelectedField
    /\ Len(struct.sourceCat) = 2
    /\ \E i, j \in DOMAIN sourceCat.flags :
          /\ sourceCat0.flags[i] /\ ~sourceCat.flags[i]
          /\ ~sourceCat0.flags[j] /\ sourceCat.flags[j]

\* C16: in every round the reset sets every candidate of the grid UNKNOWN, the
\* BAD ones included, after the basis fit of the round and before Pass A, so
\* that Pass A starts with every candidate UNKNOWN; between Pass B of a round
\* and the next basis fit (of the next round, or the final one) no status
\* changes, and that fit is made from the candidates Pass B left not BAD.
C16_ResetAfterFitBeforePassA ==
    /\ [](pc = "passA" => \A i \in InGrid : status[i] = "UNKNOWN")
    /\ [][/\ pc = "reset" =>
               /\ pc' = "passA"
               /\ \A i \in InGrid : status'[i] = "UNKNOWN"
          /\ pc \in {"endround", "loop", "fit", "final"} => status' = status
          /\ (pc \in {"fit", "final"} /\ pc' # "raised") =>
               /\ psf'.fit = nFits'
               /\ psf'.used = {i \in InGrid : status[i] # "BAD"}
          /\ pc \in {"passA", "eval", "passB"} => pc' # "reset"]_vars

\* the basis fit of the second round has left out a candidate that the first
\* round set BAD, and the reset has not been applied yet
C16_Witness ==
    /\ pc = "reset"
    /\ rounds = 2
    /\ psf.fit = 2
    /\ \E i \in InGrid : status[i] = "BAD" /\ i \notin psf.used
    /\ psf.used # {}

\* C17: at the end of every round a candidate of the grid is BAD if and only if
\* Pass A or Pass B of that round marked it, and is UNKNOWN otherwise; a
\* candidate that was BAD at the end of the round before (the fit of this round
\* left it out) and that neither pass marked in this round is not BAD.
C17_BadIffMarkedThisRound ==
    pc = "endround" =>
        /\ \A i \in InGrid :
              /\ status[i] = "BAD" <=> i \in markedA \cup markedB
              /\ status[i] # "BAD" => status[i] = "UNKNOWN"
        /\ \A i \in InGrid \ psf.used :
              i \notin markedA \cup markedB => status[i] = "UNKNOWN"

\* the second round has ended with a candidate UNKNOWN that was BAD at the end
\* of the first, and with another that the second round set BAD
C17_Witness ==
    /\ pc = "endround"
    /\ rounds = 2
    /\ psf.fit = 2
    /\ \E i \in InGrid \ psf.used : status[i] = "UNKNOWN"
    /\ \E j \in InGrid : status[j] = "BAD"

\* C18: within one round, from the reset to the end of Pass B, the only change of
\* a candidate's status is from UNKNOWN to BAD, and a candidate that Pass A or a
\* component of Pass B marked is BAD at every later point of the round.
C18_OnlyUnknownToBadWithinRound ==
    /\ [][/\ pc \in {"passA", "eval", "passB"} =>
               \A i \in DOMAIN status :
                  status'[i] # status[i] => (status[i] = "UNKNOWN" /\ status'[i] = "BAD")
         ]_vars
    /\ [](pc \in {"eval", "passB", "endround"} =>
            \A i \in markedA \cup markedB : status[i] = "BAD")

\* Pass B has ended with two components: the first marked a candidate that
\* Pass A had not marked and that the last component did not mark, and it is BAD
C18_Witness ==
    /\ pc = "endround"
    /\ cfg.nEigenComponents = 2
    /\ \E i \in markedB \ markedA :
          /\ i \notin Range(Take(badCandidates, numBad))
          /\ status[i] = "BAD"

\* C19: the candidates Pass A considers for removal are exactly those of the
\* grid whose chi-square is negative, above reducedChi2ForPsfCandidates or NaN,
\* and Pass A never marks a candidate whose chi-square lies between 0 and
\* reducedChi2ForPsfCandidates, both included.
C19_PassAFlagsOutsideTheInterval ==
    pc \in {"eval", "passB", "endround"} =>
        /\ pc = "eval" =>
              Range(badCandidates) =
                  {i \in InGrid : \/ chi2[i] = NaN
                                  \/ chi2[i] # NaN /\ chi2[i] < 0
                                  \/ chi2[i] # NaN /\ chi2[i] > ReducedChi2ForPsfCandidates}
        /\ \A i \in InGrid :
              (chi2[i] # NaN /\ 0 <= chi2[i] /\ chi2[i] <= ReducedChi2ForPsfCandidates)
                  => i \notin markedA

\* Pass A of the last round has run on a candidate whose chi-square is the
\* threshold, which it left, and on one whose chi-square is NaN or negative,
\* which it marked
C19_Witness ==
    /\ pc = "eval"
    /\ iter + 1 = cfg.nIterForPsf
    /\ \E i \in InGrid : chi2[i] = ReducedChi2ForPsfCandidates /\ i \notin markedA
    /\ \E j \in markedA : chi2[j] = NaN \/ chi2[j] < 0

\* C20: in round iter of nIterForPsf rounds, with n candidates flagged by Pass A,
\* the number Pass A marks BAD is n * (iter + 1) / nIterForPsf rounded to the
\* nearest integer: it lies within one half of the exact quotient (a tie may go
\* either way).
C20_NumBadIsRoundedQuotient ==
    pc = "eval" =>
        LET n == Len(badCandidates)
        IN  /\ Cardinality(markedA) = numBad
            /\ 2 * Abs(numBad * cfg.nIterForPsf - n * (iter + 1)) <= cfg.nIterForPsf

\* C21: the candidates Pass A marks in a round are the flagged ones with the
\* largest chi-square: no flagged candidate left unmarked has a chi-square
\* larger than that of a marked one.
C21_PassAMarksLargestChi2 ==
    pc = "eval" =>
        \A i \in Range(badCandidates) \ markedA, j \in markedA :
            ~Gt(chi2[i], chi2[j])

\* C22: for a given list of flagged candidates the number Pass A marks does not
\* decrease with the round index and never exceeds the number flagged, and in
\* the last round Pass A marks every flagged candidate.
C22_PassAQuotaGrowsToAll ==
    pc = "eval" =>
        LET n == Len(badCandidates)
        IN  /\ numBad <= n
            /\ Cardinality(markedA) = numBad
            /\ \A earlier \in 0 .. iter - 1 : NumBad(n, earlier, cfg.nIterForPsf) <= numBad
            /\ iter = cfg.nIterForPsf - 1 =>
                  numBad = n /\ markedA = Range(badCandidates)

\* the last of three rounds marks all of three flagged candidates, of which the
\* first round would have marked one and the second two
C22_Witness ==
    /\ pc = "eval"
    /\ cfg.nIterForPsf = 3
    /\ iter = 2
    /\ Len(badCandidates) = 3
    /\ markedA = Range(badCandidates)
    /\ NumBad(3, 0, 3) = 1
    /\ NumBad(3, 1, 3) = 2

\* C23: Pass B works only on the candidates that survived Pass A: a candidate
\* Pass A marked in the round is not among the candidates whose residuals were
\* evaluated, and is in no component's list of flagged candidates.
C23_PassBLeavesOutPassABad ==
    pc \in {"passB", "endround"} =>
        /\ markedA \cap Range(candidates) = {}
        /\ comp > 0 => markedA \cap Range(badCandidates) = {}

\* C24: for each component k on its own, Pass B flags exactly the evaluated
\* candidates whose residual deviates from the component's mean by more than
\* spatialReject times the component's standard deviation floored at 1e-4, and
\* marks BAD the round's graduated number of them, computed from the
\* component's own flagged count whatever earlier components marked, those of
\* largest deviation first.
C24_PassBClipsEachComponentOnItsOwn ==
    [][/\ (pc = "passB" /\ pc' # "raised") =>
            LET k == comp'
                dev == [i \in Range(candidates) |->
                            IF residuals[i][k] >= mean' THEN residuals[i][k] - mean'
                                                       ELSE mean' - residuals[i][k]]
                flagged == {i \in Range(candidates) : dev[i] > SpatialReject * rms'}
                quota == (Cardinality(flagged) * (iter + 1)) \div cfg.nIterForPsf
            IN  /\ k = comp + 1
                /\ \E stdev \in RmsVals : rms' = IF stdev > RmsFloor THEN stdev ELSE RmsFloor
                /\ Range(badCandidates') = flagged
                /\ numBad' = quota
                /\ \E S \in SUBSET flagged :
                      /\ Cardinality(S) = quota
                      /\ \A j \in S, i \in flagged \ S : dev[i] <= dev[j]
                      /\ markedB' = markedB \cup S
                      /\ status' = [i \in DOMAIN status |->
                                        IF i \in S THEN "BAD" ELSE status[i]]
      ]_vars

\* the first of two rounds has ended: each of the two components flagged both
\* candidates and marked one, the second component a candidate other than the
\* first did, the one with the larger of two different residuals
C24_Witness ==
    /\ pc = "endround"
    /\ comp = 2
    /\ cfg.nIterForPsf = 2
    /\ iter = 0
    /\ markedA = {}
    /\ Len(badCandidates) = 2
    /\ numBad = 1
    /\ Cardinality(markedB) = 2
    /\ residuals[badCandidates[1]][2] > residuals[badCandidates[2]][2]

\* C25: the candidates Pass B has set BAD are the union of the selections of
\* the components, and a component's selection depends on what was evaluated
\* before the component loop (the candidates, their residuals, the round),
\* which no component changes, and never on a candidate's status: each step
\* adds the selection of its component to the BAD candidates, and with two
\* components the candidates marked are the union of the two selections taken
\* after the first component has written, so that neither the order of the
\* components nor deferring the writes changes the result.
C25_PassBIsUnionOfSelections ==
    [][/\ (pc = "passB" /\ pc' # "raised") =>
           /\ candidates' = candidates
           /\ residuals' = residuals
           /\ iter' = iter
           /\ cfg' = cfg
           /\ \E m \in MeanVals, s \in RmsVals :
                 {i \in DOMAIN status : status'[i] = "BAD"} =
                     {i \in DOMAIN status : status[i] = "BAD"}
                         \cup SpatialSelection(comp + 1, m, FlooredRms(s))
           /\ (pc' = "endround" /\ cfg.nEigenComponents = 2) =>
                 \E m1 \in MeanVals, s1 \in RmsVals :
                     /\ markedB' = SpatialSelection(2, mean', rms')
                                       \cup SpatialSelection(1, m1, FlooredRms(s1))
                     /\ {i \in InGrid : status'[i] = "BAD"} = markedA \cup markedB'
      ]_vars

\* both components of a round flagged both candidates and each selected one:
\* the second component selected again the candidate the first had set BAD
C25_Witness ==
    /\ pc = "endround"
    /\ comp = 2
    /\ markedA = {}
    /\ Len(badCandidates) = 2
    /\ numBad = 1
    /\ Cardinality(markedB) = 1
    /\ \E m1 \in MeanVals, s1 \in RmsVals :
          /\ SpatialSelection(1, m1, FlooredRms(s1)) = markedB
          /\ SpatialSelection(2, mean, rms) = markedB

\* C26 as stated: the kernel size of a run is an odd integer for every
\* configuration of kernelSize, kernelSizeMin and kernelSizeMax and every median
\* candidate size.
C26_KernelSizeAlwaysOdd ==
    pc = "loop" => cfg.kernelSize % 2 = 1

\* C26 as the code has it: the size requested of the cutouts is the kernel size
\* left in the configuration, which is odd except where it is a configured
\* value that is even: an absolute kernelSize (15 or more) used as it is, or the
\* limit kernelSizeMin or kernelSizeMax that the scaled size was clamped to.
C26_KernelSizeOddUnlessConfiguredEven ==
    pc = "loop" =>
        /\ stampSize = cfg.kernelSize
        /\ \/ cfg.kernelSize % 2 = 1
           \/ kernelSize0 >= 15 /\ cfg.kernelSize = kernelSize0
           \/ /\ kernelSize0 < 15
              /\ cfg.kernelSize \in {cfg.kernelSizeMin, cfg.kernelSizeMax}
              /\ \E r \in 0 .. 45 :
                    /\ NearestInteger(r, kernelSize0, Median2(sizes))
                    /\ 2 * r + 1 # cfg.kernelSize

\* a scaled size above an even kernelSizeMax: the kernel size is that even limit
C26_Witness ==
    /\ pc = "loop"
    /\ kernelSize0 < 15
    /\ cfg.kernelSize % 2 = 0
    /\ cfg.kernelSize = cfg.kernelSizeMax
    /\ stampSize = cfg.kernelSizeMax
    /\ 2 * IntHalfUp(kernelSize0, Median2(sizes)) + 1 > cfg.kernelSizeMax

\* C27: a candidate whose insertion into the cell grid fails does not abort the
\* run: the construction of the grid goes on to the loop, every other candidate
\* of the list is in the cell of its position, and the rejected candidate is in
\* no cell, keeps its status through every round and is counted neither in
\* numAvailStars nor in numGoodStars.
C27_RejectedCandidateIsLeftOut ==
    /\ [][/\ (pc = "start" /\ Len(psfCandidateList) > 0) =>
               (pc' = "loop" /\ err' = "none" /\ built')
         ]_vars
    /\ [](built =>
            /\ \A i \in Cands :
                  IF psfCandidateList[i].pos = 0
                  THEN /\ \A c \in DOMAIN cells : i \notin Range(cells[c])
                       /\ status[i] = "UNKNOWN"
                  ELSE i \in Range(cells[psfCandidateList[i].pos])
            /\ pc = "done" =>
                  /\ numAvailStars =
                         Cardinality({i \in Cands : psfCandidateList[i].pos # 0})
                  /\ numGoodStars =
                         Cardinality({i \in Cands : /\ psfCandidateList[i].pos # 0
                                                    /\ status[i] # "BAD"}))

\* C28: the median from which the kernel size is derived is taken over the
\* sizes of exactly the candidates that were inserted into the grid, so that
\* the kernel size is the one derived from the inserted candidates' sizes.
C28_MedianOverInsertedOnly ==
    (pc = "loop" /\ \E i \in Cands : psfCandidateList[i].pos # 0) =>
        LET inserted == SelectSeq(psfCandidateList, LAMBDA c : c.pos # 0)
            insertedSizes == [j \in 1 .. Len(inserted) |-> inserted[j].size]
        IN  /\ Len(sizes) = Len(insertedSizes)
            /\ cfg.kernelSize = DerivedKernelSize(kernelSize0, cfg.kernelSizeMin,
                                                  cfg.kernelSizeMax, Median2(insertedSizes))

\* C29: the kernel size is computed once per call, before the first round, and
\* stored in config.kernelSize, which nothing else of the call changes: once
\* the grid is built, the cutout size, every fit and the configuration left at
\* the return hold the size derived from the value configured at the call. A
\* later call on the same determiner takes the stored size as its configured
\* kernelSize: verbatim if it is 15 or more, rescaled by the median otherwise.
C29_KernelSizeStoredInConfig ==
    /\ [][/\ pc # "start" => cfg' = cfg
          /\ calls' # calls =>
                (pc = "done" /\ pc' = "start" /\ kernelSize0' = cfg.kernelSize)
         ]_vars
    /\ [](built /\ pc # "raised" =>
            /\ stampSize = cfg.kernelSize
            /\ psf.fit > 0 => psf.kernelSize = cfg.kernelSize
            /\ IF kernelSize0 >= 15
               THEN cfg.kernelSize = kernelSize0
               ELSE \E r \in 0 .. 45 :
                       /\ NearestInteger(r, kernelSize0, Median2(sizes))
                       /\ cfg.kernelSize =
                              Clamped(2 * r + 1, cfg.kernelSizeMin, cfg.kernelSizeMax))

\* a second call has returned: it found a stored size below 15, left by the
\* first call, and rescaled it to a larger one
C29_Witness ==
    /\ pc = "done"
    /\ calls = 2
    /\ kernelSize0 < 15
    /\ kernelSize0 \notin AgainSpecKernelSizes
    /\ cfg.kernelSize > kernelSize0
    /\ ret.psf.kernelSize = cfg.kernelSize

\* the five criteria in the order of selectSources: flux limit, flags, unresolved,
\* signal to noise, isolated
ScienceCriteria == 1 .. 5

\* the criterion is switched on in the configuration
CriterionEnabled(config, c) ==
    <<config.doFluxLimit, config.doFlags, config.doUnresolved, config.doSignalToNoise,
      config.doIsolated>>[c]

\* the value is inside the limits that are set (None: not set)
WithinLimits(limit, v) ==
    /\ limit.minimum # None => Gt(v, limit.minimum)
    /\ limit.maximum # None => Lt(v, limit.maximum)

\* the source passes the criterion
CriterionPasses(config, source, c) ==
    CASE c = 1 -> ~source.calibFlag /\ WithinLimits(config.fluxLimit, source.calibFlux)
      [] c = 2 -> /\ \A flag \in Range(config.flags.good) : source.flags[flag]
                  /\ \A flag \in Range(config.flags.bad) : ~source.flags[flag]
      [] c = 3 -> WithinLimits(config.unresolved, source.extendedness)
      [] c = 4 -> /\ ~source.psfFlag
                  /\ WithinLimits(config.signalToNoise,
                                  source.psfFlux \div source.psfFluxErr)
      [] c = 5 -> source.parent = 0 /\ source.nChild = 0

\* what the criterion's apply returns for the catalog
CriterionApply(config, catalog, c) ==
    CASE c = 1 -> FluxLimitApply(config.fluxLimit, catalog)
      [] c = 2 -> RequireFlagsApply(config.flags, catalog)
      [] c = 3 -> RequireUnresolvedApply(config.unresolved, catalog)
      [] c = 4 -> SignalToNoiseLimitApply(config.signalToNoise, catalog)
      [] c = 5 -> RequireIsolatedApply(catalog)

RECURSIVE SelectedInOrder(_, _, _, _)
\* the selection so far after the enabled criteria of the order are applied to it,
\* one after the other
SelectedInOrder(config, catalog, order, selected) ==
    IF order = <<>> THEN selected
    ELSE LET c == Head(order)
             a == CriterionApply(config, catalog, c)
         IN  SelectedInOrder(config, catalog, Tail(order),
                             IF CriterionEnabled(config, c)
                             THEN [i \in DOMAIN catalog |-> selected[i] /\ a[i]]
                             ELSE selected)

\* every order of the five criteria
CriteriaOrders ==
    {order \in [ScienceCriteria -> ScienceCriteria] : Range(order) = ScienceCriteria}

\* the configuration with the criterion switched on
WithCriterion(config, c) ==
    CASE c = 1 -> [config EXCEPT !.doFluxLimit = TRUE]
      [] c = 2 -> [config EXCEPT !.doFlags = TRUE]
      [] c = 3 -> [config EXCEPT !.doUnresolved = TRUE]
      [] c = 4 -> [config EXCEPT !.doSignalToNoise = TRUE]
      [] c = 5 -> [config EXCEPT !.doIsolated = TRUE]

\* C30: selectSources returns one boolean per source, and a source is selected
\* if and only if it passes every criterion that is switched on: with all five
\* off every source is selected, applying the enabled criteria in any order
\* gives the same array, and switching one more criterion on selects no source
\* that was not selected without it.
C30_SelectedIffPassesEveryEnabledCriterion ==
    science.pc = "returned" =>
        LET config == science.config
            cat == science.cat
            selected == science.selected
        IN  /\ DOMAIN selected = DOMAIN cat
            /\ \A i \in DOMAIN cat :
                   selected[i] <=>
                       \A c \in ScienceCriteria :
                           CriterionEnabled(config, c) =>
                               CriterionPasses(config, cat[i], c)
            /\ (\A c \in ScienceCriteria : ~CriterionEnabled(config, c)) =>
                   \A i \in DOMAIN cat : selected[i]
            /\ \A order \in CriteriaOrders :
                   SelectedInOrder(config, cat, order,
                                   [i \in DOMAIN cat |-> TRUE]) = selected
            /\ \A c \in ScienceCriteria :
                   LET more == SelectSources(WithCriterion(config, c), cat)
                   IN  \A i \in DOMAIN cat : more[i] => selected[i]

\* a selection of two sources under two or more enabled criteria: the first is
\* selected although its edge flag is set, the flags being switched off, and the
\* second fails an enabled criterion and is left out
C30_Witness ==
    /\ science.pc = "returned"
    /\ Cardinality({c \in ScienceCriteria : CriterionEnabled(science.config, c)}) >= 2
    /\ ~science.config.doFlags
    /\ Len(science.cat) = 2
    /\ science.cat[1].flags.edge
    /\ science.selected = <<TRUE, FALSE>>

=============================================================================
